---- MODULE Spec2Model ----
(***************************************************************************)
(* Linear -> Discord webhook middleware.                                   *)
(*                                                                         *)
(* The model follows one process: the Express handler of POST              *)
(* /linear-webhook (src/src/index.ts), the middleware in front of it       *)
(* (src/src/security.ts) and the singleton DiscordClient                   *)
(* (src/unnamed/part_000).  Node runs every continuation between two       *)
(* suspension points (timer, HTTP response) atomically, so each action is  *)
(* one such continuation.  Time is Date.now() in milliseconds; timers may  *)
(* fire late but never early.  The clock saturates at MaxTime: the value   *)
(* MaxTime stands for "MaxTime or any later instant", so timing formulas   *)
(* only speak about instants before MaxTime.                               *)
(***************************************************************************)
EXTENDS Integers, Sequences, FiniteSets, TLC

\* ------------------------------------------------------------- bounds
TickMs == 500
StartTime == 1000
Horizon == 2000
MaxMaxRetries == 1
\* how far past a ceiling the long texts of a payload go
Excess == 4
\* how often a payload is put through optimizePayload
MaxPasses == 2
\* the limiter is followed over this many windows after the first
LimiterWindows == 2

MaxTime == StartTime + Horizon
\* the inbound requests in flight side by side, numbered in order of arrival
Requests == {1, 2}

\* client identities, as getClientIdentifier composes them
Clients == {"10.0.0.1:Linear-Webhook", "10.0.0.2:curl"}

\* ---------------------------------------------- program constants
RateLimitBuffer == 100
RetryDelay == 1000
DiscordTimeout == 30000
MaxDelay == 30000
SignatureTimeWindow == 60
MsPerSecond == 1000
MissingResetMs == 1000
DigestHexLen == 64
GenericDescriptionCut == 2000
IssueDescriptionCut == 300
DescriptionLimit == 4096
CurrentDescriptionRoom == 3500
CurrentDescriptionCut == 500
CommentBodyCut == 1500
IssueContextCut == 200
ContentMax == 2000
EmbedTitleMax == 256
EmbedDescriptionMax == 4096
EmbedFieldNameMax == 256
EmbedFieldValueMax == 1024
EmbedFooterTextMax == 2048
EmbedTotalMax == 6000
EmbedsMax == 10
FieldsMax == 25
ReduceFloor == 100
ReducedFields == 5
ReducedNameMax == 50
ReducedValueMax == 100
MaxRetriesLimit == 10
WindowMs == 60000

\* An optional value: <<>> is undefined / absent, <<v>> is the value v.
Undefined == <<>>
Some(v) == <<v>>
IsDefined(o) == o # <<>>
Val(o) == o[1]

Abs(x) == IF x < 0 THEN -x ELSE x
Max(a, b) == IF a >= b THEN a ELSE b
Min(a, b) == IF a <= b THEN a ELSE b

VARIABLES
  now,              \* Date.now()
  config,           \* the configuration loaded at start-up
  lastRequestTime,  \* DiscordClient.lastRequestTime
  rateLimitInfo,    \* DiscordClient.rateLimitInfo
  call,             \* per inbound request: the locals of its sendWebhook call
  inbound,          \* per inbound request: the response written to the source
  obs,              \* per inbound request in delivery: what the wire has seen
  quota,            \* the headers last processed, and whether the remembered
                    \* quota stayed open since the latest request was issued
  requests,         \* RateLimiter.requests: per client identity, its request times
  clientView,       \* per client identity: its admissions of the last window, the
                    \* earliest time a Retry-After since then told it to come back
                    \* at, and whether it was rejected again after that
  event             \* what the latest step did: a request issued, a call settled

vars == <<now, config, lastRequestTime, rateLimitInfo, call, inbound, obs, quota,
          requests, clientView, event>>

\* =====================================================================
\* DiscordClient (src/unnamed/part_000)
\* =====================================================================

\* parseInt on the strings the sink sends: the leading integer, the
\* fraction dropped
ParseInt(s) ==
  CASE s = "0" -> 0 [] s = "1" -> 1 [] s = "2" -> 2 [] s = "2.5" -> 2
    [] s = "3" -> 3 [] s = "4" -> 4 [] s = "5" -> 5

\* parseFloat; the model holds the resulting number in tenths (1.5 is 15)
ParseFloat(s) ==
  CASE s = "0.5" -> 5 [] s = "1" -> 10 [] s = "1.5" -> 15 [] s = "2" -> 20

\* JavaScript truthiness of a header lookup: undefined and "" are falsy
Truthy(h) == IsDefined(h) /\ Val(h) # ""

NoHeaders ==
  [limit |-> Undefined, remaining |-> Undefined, reset |-> Undefined,
   resetAfter |-> Undefined, bucket |-> Undefined, scope |-> Undefined]

\* rate-limit headers of a response with quota left
AmpleHeaders ==
  [limit |-> Some("5"), remaining |-> Some("4"), reset |-> Some("2.5"),
   resetAfter |-> Some("0.5"), bucket |-> Some("abc"), scope |-> Undefined]

\* rate-limit headers of a response that used up the quota
SpentHeaders ==
  [limit |-> Undefined, remaining |-> Some("0"), reset |-> Some("3"),
   resetAfter |-> Some("1.5"), bucket |-> Undefined, scope |-> Some("user")]

\* one call left, no reset time, empty limit and bucket values
SparseHeaders ==
  [limit |-> Some(""), remaining |-> Some("1"), reset |-> Undefined,
   resetAfter |-> Undefined, bucket |-> Some(""), scope |-> Undefined]

\* the responses of the sink: status, rate-limit headers, retry-after
Responses ==
  { [status |-> 204, headers |-> AmpleHeaders,  retryAfter |-> Undefined],
    [status |-> 204, headers |-> SpentHeaders,  retryAfter |-> Undefined],
    [status |-> 204, headers |-> NoHeaders,     retryAfter |-> Undefined],
    [status |-> 429, headers |-> SpentHeaders,  retryAfter |-> Some("1")],
    [status |-> 429, headers |-> SparseHeaders, retryAfter |-> Undefined],
    [status |-> 400, headers |-> AmpleHeaders,  retryAfter |-> Undefined],
    [status |-> 500, headers |-> NoHeaders,     retryAfter |-> Undefined] }

\* a transport failure: an AxiosError without response
Faults ==
  { [response |-> Undefined, code |-> Some("ECONNABORTED"), message |-> "timeout exceeded"],
    [response |-> Undefined, code |-> Undefined, message |-> "socket hang up"] }

\* Math.random() * 2 - 1, in hundredths
JitterRolls == {-100, 0, 99}

\* makeRequest: validateStatus: () => true
ValidateStatus(status) == TRUE

\* applyRateLimitBuffer: the wait it decides on at time t (0: no sleep)
PacingWait(t) ==
  IF IsDefined(rateLimitInfo.remaining) /\ Val(rateLimitInfo.remaining) <= 1
  THEN LET resetTime ==
             IF IsDefined(rateLimitInfo.reset) /\ Val(rateLimitInfo.reset) # 0
             THEN Val(rateLimitInfo.reset) * MsPerSecond
             ELSE t + MissingResetMs
       IN  Max(0, resetTime - t + RateLimitBuffer)
  ELSE IF t - lastRequestTime < RateLimitBuffer
       THEN RateLimitBuffer - (t - lastRequestTime)
       ELSE 0

\* a variant of updateRateLimitInfo that keeps the old value of a field whose
\* header is missing
UpdateRateLimitInfoMerge(headers) ==
  [limit      |-> IF Truthy(headers.limit)
                  THEN Some(ParseInt(Val(headers.limit))) ELSE rateLimitInfo.limit,
   remaining  |-> IF Truthy(headers.remaining)
                  THEN Some(ParseInt(Val(headers.remaining))) ELSE rateLimitInfo.remaining,
   reset      |-> IF Truthy(headers.reset)
                  THEN Some(ParseInt(Val(headers.reset))) ELSE rateLimitInfo.reset,
   resetAfter |-> IF Truthy(headers.resetAfter)
                  THEN Some(ParseFloat(Val(headers.resetAfter))) ELSE rateLimitInfo.resetAfter,
   bucket     |-> IF Truthy(headers.bucket) THEN headers.bucket ELSE rateLimitInfo.bucket,
   scope      |-> IF Truthy(headers.scope) THEN headers.scope ELSE rateLimitInfo.scope]

\* updateRateLimitInfo: the state built from one response's headers
UpdateRateLimitInfo(headers) ==
  [limit      |-> IF Truthy(headers.limit)
                  THEN Some(ParseInt(Val(headers.limit))) ELSE Undefined,
   remaining  |-> IF Truthy(headers.remaining)
                  THEN Some(ParseInt(Val(headers.remaining))) ELSE Undefined,
   reset      |-> IF Truthy(headers.reset)
                  THEN Some(ParseInt(Val(headers.reset))) ELSE Undefined,
   resetAfter |-> IF Truthy(headers.resetAfter)
                  THEN Some(ParseFloat(Val(headers.resetAfter))) ELSE Undefined,
   bucket     |-> IF Truthy(headers.bucket) THEN headers.bucket ELSE Undefined,
   scope      |-> IF Truthy(headers.scope) THEN headers.scope ELSE Undefined]

\* parseError: AxiosError -> RetryableError (the statusText that ends the
\* message of an API error is left out)
ParseError(error) ==
  IF IsDefined(error.response)
  THEN LET response == Val(error.response) IN
       IF response.status = 429
       THEN [message |-> <<"Discord rate limited. Retry after: ",
                           IF Truthy(response.retryAfter)
                           THEN Val(response.retryAfter) ELSE "unknown", "s">>,
             status |-> Some(response.status),
             retryAfter |-> IF Truthy(response.retryAfter)
                            THEN Some(ParseInt(Val(response.retryAfter)))
                            ELSE Undefined]
       ELSE [message |-> <<"Discord API error ", ToString(response.status), ": ">>,
             status |-> Some(response.status),
             retryAfter |-> Undefined]
  ELSE IF IsDefined(error.code)
  THEN [message |-> <<"Network error: ", Val(error.code)>>,
        status |-> Undefined, retryAfter |-> Undefined]
  ELSE [message |-> <<"Unknown error: ", error.message>>,
        status |-> Undefined, retryAfter |-> Undefined]

\* isRetryableError
IsRetryableError(error) ==
  IF IsDefined(error.status) /\ Val(error.status) = 429 THEN TRUE
  ELSE IF IsDefined(error.status) /\ Val(error.status) # 0
          /\ Val(error.status) >= 500 /\ Val(error.status) < 600 THEN TRUE
  ELSE IF ~IsDefined(error.status) \/ Val(error.status) = 0 THEN TRUE
  ELSE IF Val(error.status) >= 400 /\ Val(error.status) < 500 THEN FALSE
  ELSE TRUE

\* the backoff of calculateDelay without its last line, the cap
BackoffDelayUncapped(baseDelay, attempt, roll) ==
  LET exponentialDelay == IF attempt >= 1 THEN baseDelay * 2 ^ (attempt - 1)
                          ELSE baseDelay \div 2 ^ (1 - attempt)
      \* exponentialDelay * 0.25 * roll / 100
      jitter == (exponentialDelay * roll) \div 400
  IN  Max(baseDelay, exponentialDelay + jitter)

\* calculateDelay without a retry-after, for config.discord.retryDelay =
\* baseDelay; roll is Math.random() * 2 - 1 in hundredths
BackoffDelay(baseDelay, attempt, roll) ==
  LET \* Math.pow(2, attempt - 1)
      exponentialDelay == IF attempt >= 1 THEN baseDelay * 2 ^ (attempt - 1)
                          ELSE baseDelay \div 2 ^ (1 - attempt)
      \* exponentialDelay * 0.25 * roll / 100
      jitter == (exponentialDelay * roll) \div 400
      finalDelay == Max(baseDelay, exponentialDelay + jitter)
  IN  Min(finalDelay, MaxDelay)

\* calculateDelay, with the default retryDelay
CalculateDelay(attempt, retryAfter, roll) ==
  IF IsDefined(retryAfter) /\ Val(retryAfter) # 0
  THEN Val(retryAfter) * MsPerSecond + RateLimitBuffer
  ELSE BackoffDelay(RetryDelay, attempt, roll)

\* a variant of the catch block that forgets to count the attempt
NextAttemptStuck(attempt) == attempt

\* sendWebhook: attempt++ in the catch block
NextAttempt(attempt) == attempt + 1

\* a variant of the loop exit that gives up one attempt early
ExhaustedEarly(attempt) == attempt >= config.maxRetries

\* sendWebhook: the test that ends the retry loop after a failed attempt
Exhausted(attempt) == attempt > config.maxRetries

\* sendWebhook: the error thrown once all attempts are used up
AggregateError(lastError) ==
  <<"Discord webhook failed after ", ToString(config.maxRetries + 1),
    " attempts. Last error: ">> \o lastError.message

\* =====================================================================
\* Inbound side: middleware (src/src/security.ts) and handler (src/src/index.ts)
\* =====================================================================

\* LINEAR_WEBHOOK_SECRET values: unset / empty, or a shared secret
Secrets == {"", "whsec"}

\* the configurations the process may have been started with
Configs ==
  { [maxRetries |-> m, linearWebhookSecret |-> s, enableSignatureVerification |-> v] :
      m \in 0..MaxMaxRetries, s \in Secrets, v \in BOOLEAN }
  \ { [maxRetries |-> m, linearWebhookSecret |-> "", enableSignatureVerification |-> FALSE] :
      m \in 0..MaxMaxRetries }

\* raw request bodies (the Buffer of bodyParser.raw) received at time t.
\* text: the text the bytes decode to; utf8: the bytes are the UTF-8 encoding
\* of that text (FALSE: they hold an invalid sequence that decodes to U+FFFD);
\* json: JSON.parse of the text succeeds; ts: its webhookTimestamp member
\* (absent, fresh, as old as the window allows, older than the window, or
\* further in the future than the window); valid: LinearWebhookPayloadSchema
\* accepts the parsed value, which takes a webhookTimestamp
Bodies(t) ==
  { [text |-> "not json", utf8 |-> TRUE, json |-> FALSE, ts |-> Undefined, valid |-> FALSE] }
  \cup
  { b \in { [text |-> x, utf8 |-> u, json |-> TRUE, ts |-> s, valid |-> v] :
               x \in {"issue A", "issue B"}, u \in BOOLEAN,
               s \in {Undefined, Some(t),
                       Some(t - SignatureTimeWindow * MsPerSecond),
                       Some(t - SignatureTimeWindow * MsPerSecond - 1),
                       Some(t + SignatureTimeWindow * MsPerSecond + 1)},
               v \in BOOLEAN } :
        b.valid => IsDefined(b.ts) }

\* req.body.toString(): the text, which a later UTF-8 encoding (hmac.update of
\* a string) turns into the bytes that encode it
BufferToString(raw) == [raw EXCEPT !.utf8 = TRUE]

\* crypto.createHmac("sha256", secret).update(payload).digest("hex")
Hmac(secret, payload) == <<"hmac-sha256-hex", secret, payload>>

\* the bodies a signature sent along with body at time t may have been
\* computed over: the body itself, its decoded text, or another body
SignedBodies(body, t) ==
  {body, BufferToString(body)} \cup
  { x \in Bodies(t) : x.json /\ x.valid /\ x.utf8 /\ x.ts = body.ts }

\* the composite header value t=<unix_ms>,v1=<hex_digest>, composed at the
\* time the request is made, with the digest of payload under secret
Composite(secret, payload) == <<"t=,v1=", secret, payload>>

\* values of the linear-signature header sent along with body at time t
Signatures(body, t) ==
  { Undefined, Some(<<"garbage">>) }
  \cup { Some(Hmac(k, b)) : k \in {"whsec", "guess"}, b \in SignedBodies(body, t) }
  \cup { Some(Composite("whsec", b)) : b \in SignedBodies(body, t) }

\* Buffer.from(signature).length
SigLen(sig) ==
  IF sig[1] = "hmac-sha256-hex" THEN DigestHexLen
  ELSE IF sig[1] = "t=,v1=" THEN DigestHexLen + 19
  ELSE 7

\* a variant of verifySignature that only turns away timestamps of the past
VerifySignaturePastOnly(signature, payload, secret, webhookTimestamp, t) ==
  IF secret = "" \/ ~config.enableSignatureVerification THEN TRUE
  ELSE IF IsDefined(webhookTimestamp)
          /\ t - Val(webhookTimestamp) > SignatureTimeWindow * MsPerSecond
       THEN FALSE
  ELSE IF ~IsDefined(signature) THEN FALSE
  ELSE IF SigLen(Val(signature)) # DigestHexLen THEN FALSE
  ELSE Val(signature) = Hmac(secret, payload)

\* verifySignature (index.ts); t is Date.now()
VerifySignature(signature, payload, secret, webhookTimestamp, t) ==
  IF secret = "" \/ ~config.enableSignatureVerification THEN TRUE
  ELSE IF IsDefined(webhookTimestamp)
          /\ Abs(t - Val(webhookTimestamp)) > SignatureTimeWindow * MsPerSecond
       THEN FALSE
  ELSE IF ~IsDefined(signature) THEN FALSE        \* Buffer.from throws, caught
  ELSE IF SigLen(Val(signature)) # DigestHexLen THEN FALSE
  ELSE Val(signature) = Hmac(secret, payload)      \* timingSafeEqual

\* SecurityMiddleware.webhookValidation: the status it answers, 0 for next()
WebhookValidation(contentTypeJson, signature) ==
  IF ~contentTypeJson THEN 400
  ELSE IF config.enableSignatureVerification /\ config.linearWebhookSecret # ""
          /\ ~IsDefined(signature)
       THEN 400
  ELSE 0

\* the handler up to the delivery: the status it answers, 0 when it goes on
\* to discordClient.sendWebhook
HandlerFront(signature, body, t) ==
  LET rawBody == BufferToString(body) IN
  IF ~rawBody.json THEN 500
  ELSE IF config.linearWebhookSecret # ""
          /\ ~VerifySignature(signature, rawBody, config.linearWebhookSecret, rawBody.ts, t)
       THEN 401
  ELSE IF ~rawBody.valid THEN 400
  ELSE 0

\* =====================================================================
\* State machine
\* =====================================================================

\* new Map(): no client has a history
NoRequests == [c \in Clients |-> <<>>]

\* no client has been admitted or told to wait
NoView == [c \in Clients |-> [admitted |-> <<>>, retryAt |-> Undefined, again |-> FALSE]]

IdleCall ==
  [pc |-> "idle", attempt |-> 0, lastError |-> Undefined, wakeAt |-> 0]

QuietObs ==
  [issued |-> 0, sleeps |-> 0, accepted |-> 0, lastStatus |-> 0,
   saw429 |-> FALSE, notBefore |-> 0]

\* the counters of obs stop at this value
ObsCap == MaxMaxRetries + 3

NoEvent == [kind |-> "none"]

\* configurations with a secret set and signature verification enabled
SecuredConfigs ==
  { c \in Configs : c.linearWebhookSecret # "" /\ c.enableSignatureVerification }

Init ==
  /\ now = StartTime
  /\ config \in SecuredConfigs
  /\ lastRequestTime = 0
  /\ rateLimitInfo = NoHeaders
  /\ call = [r \in Requests |-> IdleCall]
  /\ inbound = [r \in Requests |-> [resp |-> 0, deadline |-> 0]]
  /\ obs = [r \in Requests |-> QuietObs]
  /\ quota = [headers |-> Undefined, open |-> TRUE]
  /\ requests = NoRequests
  /\ clientView = NoView
  /\ event = NoEvent

\* the remembered quota is unknown or greater than 1
QuotaOpen(info) == ~(IsDefined(info.remaining) /\ Val(info.remaining) <= 1)

\* the remembered state asks to hold back until reset + buffer, and t is earlier
HoldBack(info, t) ==
  /\ IsDefined(info.remaining) /\ Val(info.remaining) <= 1
  /\ IsDefined(info.reset)
  /\ t < Val(info.reset) * MsPerSecond + RateLimitBuffer

\* the end of applyRateLimitBuffer followed by makeRequest: request r's call,
\* continued from record c and observation o, puts a request on the wire;
\* input is the inbound request when this happens as it arrives
Issue(r, c, o, input) ==
  /\ lastRequestTime' = now
  /\ call' = [call EXCEPT ![r] = [c EXCEPT !.pc = "inflight", !.wakeAt = 0]]
  /\ obs' = [obs EXCEPT ![r] = [o EXCEPT !.issued = Min(@ + 1, ObsCap)]]
  /\ quota' = [quota EXCEPT !.open = QuotaOpen(rateLimitInfo)]
  /\ event' = [kind |-> "issue", r |-> r,
               gap |-> IF lastRequestTime = 0 \/ now >= MaxTime THEN Undefined
                       ELSE Some(now - lastRequestTime),
               open |-> quota.open /\ QuotaOpen(rateLimitInfo),
               early |-> now < MaxTime /\ HoldBack(rateLimitInfo, now),
               tooSoon |-> now < MaxTime /\ now < o.notBefore,
               input |-> input]

\* applyRateLimitBuffer from its start: sleep, or go straight to the request
ApplyRateLimitBuffer(r, c, o, input) ==
  LET waitTime == PacingWait(now) IN
  IF waitTime > 0
  THEN /\ call' = [call EXCEPT ![r] =
                     [c EXCEPT !.pc = "pacing", !.wakeAt = Min(now + waitTime, MaxTime)]]
       /\ obs' = [obs EXCEPT ![r] = o]
       /\ event' = IF IsDefined(input)
                   THEN [kind |-> "admit", r |-> r, input |-> input] ELSE NoEvent
       /\ UNCHANGED <<lastRequestTime, quota>>
  ELSE Issue(r, c, o, input)

\* the bodies that arrive while deliveries are under way: without a
\* timestamp, fresh, or older than the window
Arrivals(t) ==
  { b \in Bodies(t) : IsDefined(b.ts) => Val(b.ts) \in {t, t - SignatureTimeWindow * MsPerSecond - 1} }

\* the header values that arrive with them: none, or a bare digest
HexSignatures(body, t) ==
  { s \in Signatures(body, t) : IsDefined(s) => Val(s)[1] # "t=,v1=" }

\* a request of the source arrives; the middleware and the handler run up to
\* the first suspension of sendWebhook
Receive(r) ==
  /\ call[r].pc = "idle"
  /\ \A q \in Requests : q < r => call[q].pc # "idle"
  /\ \E contentTypeJson \in BOOLEAN, body \in Arrivals(now) :
       \E signature \in HexSignatures(body, now) :
         LET early  == WebhookValidation(contentTypeJson, signature)
             status == IF early # 0 THEN early ELSE HandlerFront(signature, body, now)
             sigOk  == IsDefined(signature)
                       /\ Val(signature) = Hmac(config.linearWebhookSecret, body)
         IN  IF status # 0
             THEN /\ inbound' = [inbound EXCEPT ![r] = [resp |-> status, deadline |-> 0]]
                  /\ call' = [call EXCEPT ![r].pc = "done"]
                  /\ event' = [kind |-> "refuse", r |-> r, answer |-> status,
                               sigOk |-> sigOk]
                  /\ UNCHANGED <<lastRequestTime, obs, quota>>
             ELSE /\ inbound' = [inbound EXCEPT ![r] =
                       [resp |-> 0, deadline |-> Min(now + DiscordTimeout, MaxTime)]]
                  /\ ApplyRateLimitBuffer(r, call[r], obs[r],
                                          Some([body |-> body, signature |-> signature]))
  /\ UNCHANGED <<now, config, requests, clientView, rateLimitInfo>>

\* the pacing sleep of applyRateLimitBuffer ends
PacingWake(r) ==
  /\ call[r].pc = "pacing"
  /\ now >= call[r].wakeAt
  /\ Issue(r, call[r], obs[r], Undefined)
  /\ UNCHANGED <<now, config, requests, clientView, rateLimitInfo, inbound>>

\* sendWebhook settles and the handler answers the source, unless the
\* timeout middleware has answered already (res.send then throws)
Settle(r, o, result, error, cause, dropped) ==
  LET answer == IF inbound[r].resp # 0 THEN 0
                ELSE IF result = "resolved" THEN 200 ELSE 500
  IN  /\ call' = [call EXCEPT ![r] = [IdleCall EXCEPT !.pc = "done"]]
      /\ obs' = [obs EXCEPT ![r] = QuietObs]
      /\ inbound' = [inbound EXCEPT ![r].resp = IF answer # 0 THEN answer ELSE @]
      /\ event' = [kind |-> "settle", r |-> r, result |-> result, error |-> error,
                   answer |-> answer, seen |-> o, cause |-> cause, dropped |-> dropped]

\* the catch block of sendWebhook for the AxiosError error
Catch(r, o, error) ==
  LET attempt   == NextAttempt(call[r].attempt)
      lastError == ParseError(error)
  IN  IF ~IsRetryableError(lastError)
      THEN Settle(r, o, "rejected", lastError.message, Some(error), FALSE)
      ELSE IF Exhausted(attempt)
      THEN Settle(r, o, "rejected", AggregateError(lastError), Some(error), FALSE)
      ELSE \E roll \in JitterRolls :
             LET delay == CalculateDelay(attempt, lastError.retryAfter, roll) IN
             /\ call' = [call EXCEPT ![r] =
                  [pc |-> "backoff", attempt |-> attempt, lastError |-> Some(lastError),
                   wakeAt |-> Min(now + delay, MaxTime)]]
             /\ obs' = [obs EXCEPT ![r] = [o EXCEPT !.sleeps = Min(@ + 1, ObsCap)]]
             /\ event' = NoEvent
             /\ UNCHANGED inbound

\* the sink answers the request in flight
Response(r) ==
  /\ call[r].pc = "inflight"
  /\ \E response \in Responses :
       LET o == [obs[r] EXCEPT
                   !.lastStatus = response.status,
                   !.saw429 = @ \/ (response.status = 429 /\ IsDefined(response.retryAfter)),
                   !.notBefore = IF response.status = 429 /\ IsDefined(response.retryAfter)
                                 THEN now + ParseInt(Val(response.retryAfter)) * MsPerSecond
                                 ELSE @,
                   !.accepted = IF response.status \in 200..299 THEN Min(@ + 1, ObsCap) ELSE @]
       IN  IF ValidateStatus(response.status)
           THEN /\ rateLimitInfo' = UpdateRateLimitInfo(response.headers)
                /\ quota' = [headers |-> Some(response.headers),
                             open |-> quota.open
                                      /\ QuotaOpen(UpdateRateLimitInfo(response.headers))]
                /\ Settle(r, o, "resolved", <<>>, Undefined,
                          \E f \in DOMAIN NoHeaders :
                            IsDefined(rateLimitInfo[f]) /\ ~IsDefined(response.headers[f]))
           ELSE /\ Catch(r, o, [response |-> Some(response),
                                code |-> Some("ERR_BAD_RESPONSE"),
                                message |-> "Request failed"])
                /\ UNCHANGED <<rateLimitInfo, quota>>
  /\ UNCHANGED <<now, config, requests, clientView, lastRequestTime>>

\* a catch block that forgets the remembered state when no response came
RateLimitInfoForgotten(error) == NoHeaders

\* what the catch block of sendWebhook leaves in this.rateLimitInfo: it does
\* not assign it, updateRateLimitInfo is the only place that does
RateLimitInfoAfterError(error) == rateLimitInfo

\* the request in flight ends without a response; reached: the sink had
\* received and accepted it before the timeout cut the exchange off
TransportFailure(r) ==
  /\ call[r].pc = "inflight"
  /\ \E fault \in Faults, reached \in BOOLEAN :
       /\ reached => fault.code = Some("ECONNABORTED")
       /\ rateLimitInfo' = RateLimitInfoAfterError(fault)
       /\ Catch(r, [obs[r] EXCEPT
                       !.accepted = IF reached THEN Min(@ + 1, ObsCap) ELSE @],
                fault)
  /\ UNCHANGED <<now, config, requests, clientView, lastRequestTime, quota>>

\* the backoff sleep ends: the loop test, then applyRateLimitBuffer
BackoffWake(r) ==
  /\ call[r].pc = "backoff"
  /\ now >= call[r].wakeAt
  /\ IF call[r].attempt <= config.maxRetries
     THEN /\ ApplyRateLimitBuffer(r, call[r], obs[r], Undefined)
          /\ UNCHANGED inbound
     ELSE /\ Settle(r, obs[r], "rejected", AggregateError(Val(call[r].lastError)),
                    Undefined, FALSE)
          /\ UNCHANGED <<lastRequestTime, quota>>
  /\ UNCHANGED <<now, config, requests, clientView, rateLimitInfo>>

\* SecurityMiddleware.requestTimeout: the timer set when the request came in
Timeout(r) ==
  /\ call[r].pc \in {"pacing", "inflight", "backoff"}
  /\ now >= inbound[r].deadline
  /\ inbound[r].resp = 0
  /\ inbound' = [inbound EXCEPT ![r].resp = 408]
  /\ event' = [kind |-> "timeout", r |-> r]
  /\ UNCHANGED <<now, config, requests, clientView, lastRequestTime, rateLimitInfo, call, obs, quota>>

\* time passes
Tick ==
  /\ now < MaxTime
  /\ now' = Min(now + TickMs, MaxTime)
  /\ event' = NoEvent
  /\ UNCHANGED <<config, requests, clientView, lastRequestTime, rateLimitInfo, call, inbound, obs, quota>>

Next ==
  \/ \E r \in Requests : Receive(r)
  \/ \E r \in Requests : PacingWake(r)
  \/ \E r \in Requests : Response(r)
  \/ \E r \in Requests : TransportFailure(r)
  \/ \E r \in Requests : BackoffWake(r)
  \/ \E r \in Requests : Timeout(r)
  \/ Tick

Spec == Init /\ [][Next]_vars

\* The event loop runs every callback that is ready: time passes, a timer
\* that is due fires, and a request in flight ends (axios gives up after
\* config.discord.timeout at the latest).
Fairness ==
  /\ WF_vars(Tick)
  /\ \A r \in Requests :
       /\ WF_vars(PacingWake(r))
       /\ WF_vars(Response(r) \/ TransportFailure(r))
       /\ WF_vars(BackoffWake(r))

FairSpec == Spec /\ Fairness

\* request r is inside discordClient.sendWebhook
InDelivery(r) == call[r].pc \in {"pacing", "inflight", "backoff"}

\* ---------------------------------------------------------------------
\* The checks in front of the delivery, taken alone: a request composed at
\* StartTime is presented at some later time, and the middleware and the
\* handler decide on it exactly as in Receive; the event keeps the request
\* and then the answer (0: the handler goes on to discordClient.sendWebhook).
\* Every configuration is covered.

FrontInit ==
  /\ now = StartTime
  /\ config \in Configs
  /\ lastRequestTime = 0
  /\ rateLimitInfo = NoHeaders
  /\ call = [r \in Requests |-> IdleCall]
  /\ inbound = [r \in Requests |-> [resp |-> 0, deadline |-> 0]]
  /\ obs = [r \in Requests |-> QuietObs]
  /\ quota = [headers |-> Undefined, open |-> TRUE]
  /\ requests = NoRequests
  /\ clientView = NoView
  /\ \E contentTypeJson \in BOOLEAN, body \in Bodies(StartTime) :
       \E signature \in Signatures(body, StartTime) :
         event = [kind |-> "request", contentTypeJson |-> contentTypeJson,
                  body |-> body, signature |-> signature]

\* time passes before the request is presented
Wait ==
  /\ event.kind = "request"
  /\ now < MaxTime
  /\ now' = Min(now + TickMs, MaxTime)
  /\ UNCHANGED <<config, requests, clientView, lastRequestTime, rateLimitInfo, call, inbound, obs, quota, event>>

\* the request is presented: webhookValidation, then the handler up to the
\* delivery
Arrive ==
  /\ event.kind = "request"
  /\ LET early  == WebhookValidation(event.contentTypeJson, event.signature)
         status == IF early # 0 THEN early
                   ELSE HandlerFront(event.signature, event.body, now)
     IN  event' = [kind |-> "front", contentTypeJson |-> event.contentTypeJson,
                   body |-> event.body, signature |-> event.signature,
                   answer |-> status]
  /\ UNCHANGED <<now, config, requests, clientView, lastRequestTime, rateLimitInfo, call, inbound, obs, quota>>

FrontNext == Arrive \/ Wait

FrontSpec == FrontInit /\ [][FrontNext]_vars

\* the signature of the request in event is the hex HMAC-SHA256 of its raw
\* body under the configured secret
CorrectlySigned ==
  /\ config.linearWebhookSecret # ""
  /\ event.signature = Some(Hmac(config.linearWebhookSecret, event.body))

\* the request in event claims a timestamp further than the window from now
OutsideWindow ==
  /\ IsDefined(event.body.ts)
  /\ Abs(now - Val(event.body.ts)) > SignatureTimeWindow * MsPerSecond

\* a secret is configured and signature verification is enabled
Secured == config.linearWebhookSecret # "" /\ config.enableSignatureVerification

\* =====================================================================
\* schemas.ts, embed-factory.ts: decoding an envelope and building the embed
\* =====================================================================

\* JSON values as JavaScript sees them after JSON.parse; Absent is a member
\* that is not there (undefined)
Absent == [t |-> "absent"]
Null == [t |-> "null"]
Str(s) == [t |-> "string", s |-> s]
Num(n) == [t |-> "number", n |-> n]
Bool(b) == [t |-> "boolean", b |-> b]
Obj(o) == [t |-> "object", o |-> o]
Arr(a) == [t |-> "array", a |-> a]

\* {}
EmptyObject == Obj([k \in {} |-> Absent])

Nullish(v) == v.t \in {"absent", "null"}

\* ToBoolean
JsTruthy(v) ==
  CASE v.t \in {"absent", "null"} -> FALSE
    [] v.t = "string" -> v.s # ""
    [] v.t = "number" -> v.n # 0
    [] v.t = "boolean" -> v.b
    [] OTHER -> TRUE

\* a || b
Or(a, b) == IF JsTruthy(a) THEN a ELSE b

\* v?.k: undefined on a nullish base and on a base without the member
Member(v, k) ==
  IF v.t = "object" /\ k \in DOMAIN v.o THEN v.o[k] ELSE Absent

\* a !== b on the values the comparisons of the factory meet (primitives and
\* undefined)
StrictlyDiffer(a, b) == a # b

\* `${v}` in a template literal
Text(v) ==
  CASE v.t = "absent" -> "undefined"
    [] v.t = "null" -> "null"
    [] v.t = "string" -> v.s
    [] v.t = "number" -> ToString(v.n)
    [] v.t = "boolean" -> (IF v.b THEN "true" ELSE "false")
    [] OTHER -> "[object Object]"

\* s.substring(0, n)
Substring(s, n) == IF Len(s) <= n THEN s ELSE SubSeq(s, 1, n)

\* v?.substring(0, n) evaluates only when v is nullish or a string; on any
\* other value the member substring is undefined and the call throws TypeError
SubstringThrows(v) == v.t \notin {"absent", "null", "string"}

OptSubstring(v, n) ==
  IF v.t = "string" THEN Str(Substring(v.s, n)) ELSE Absent

\* LinearWebhookPayloadSchema: action and type are closed enumerations
Actions == {"create", "update", "remove"}

DeclaredTypes ==
  {"Issue", "Comment", "Project", "Cycle", "User", "Team", "IssueLabel",
   "Reaction", "CustomView", "Document", "Initiative", "Roadmap", "Attachment"}

\* a type Linear may send that the enumeration does not declare
UndeclaredTypes == {"ProjectUpdate"}

\* action.charAt(0).toUpperCase() + action.slice(1)
Capitalize(action) ==
  CASE action = "create" -> "Create"
    [] action = "update" -> "Update"
    [] action = "remove" -> "Remove"

\* the outcome of a creator that threw
Thrown == [threw |-> TRUE]

Embed(creator, title, description, changes) ==
  [threw |-> FALSE, creator |-> creator, title |-> title,
   description |-> description, changes |-> changes]

\* createGenericEmbed
CreateGenericEmbed(type, action, data) ==
  IF SubstringThrows(Member(data, "description")) THEN Thrown
  ELSE Embed("createGenericEmbed",
             type \o " " \o Capitalize(action) \o "d",
             Text(Or(OptSubstring(Member(data, "description"), GenericDescriptionCut),
                     Str(type \o " was " \o action \o "d in Linear."))),
             <<>>)

\* createProjectEmbed, createTeamEmbed, createLabelEmbed: the title names the
\* entity, the description is cut as in the generic embed
CreateDescribedEmbed(creator, label, action, name, data) ==
  IF SubstringThrows(Member(data, "description")) THEN Thrown
  ELSE Embed(creator,
             label \o " " \o Capitalize(action) \o "d: " \o Text(name),
             Text(Or(OptSubstring(Member(data, "description"), GenericDescriptionCut),
                     Str(label \o " was " \o action \o "d in Linear."))),
             <<>>)

\* createUserEmbed, createCycleEmbed: a fixed description
CreatePlainEmbed(creator, label, action, name) ==
  Embed(creator,
        label \o " " \o Capitalize(action) \o "d: " \o Text(name),
        label \o " was " \o action \o "d in Linear.",
        <<>>)

\* createEntityEmbed
CreateEntityEmbed(type, action, data) ==
  CASE type = "Project" ->
         CreateDescribedEmbed("createProjectEmbed", "Project", action,
                              Or(Member(data, "name"), Member(data, "id")), data)
    [] type = "Team" ->
         CreateDescribedEmbed("createTeamEmbed", "Team", action,
                              Or(Or(Member(data, "name"), Member(data, "key")), Member(data, "id")), data)
    [] type = "User" ->
         CreatePlainEmbed("createUserEmbed", "User", action,
                          Or(Or(Member(data, "name"), Member(data, "displayName")), Member(data, "id")))
    [] type = "Cycle" ->
         CreatePlainEmbed("createCycleEmbed", "Cycle", action,
                          Or(Member(data, "name"), Member(data, "id")))
    [] type = "IssueLabel" ->
         CreateDescribedEmbed("createLabelEmbed", "Label", action,
                              Or(Member(data, "name"), Member(data, "id")), data)
    [] OTHER -> CreateGenericEmbed(type, action, data)

\* Array.prototype.join
RECURSIVE Join(_, _)
Join(parts, sep) ==
  IF parts = <<>> THEN ""
  ELSE IF Len(parts) = 1 THEN parts[1]
  ELSE parts[1] \o sep \o Join(Tail(parts), sep)

\* labels.map(l => l?.name).filter(Boolean), as texts
RECURSIVE LabelNames(_)
LabelNames(a) ==
  IF a = <<>> THEN <<>>
  ELSE LET name == Member(a[1], "name")
       IN  (IF JsTruthy(name) THEN <<Text(name)>> ELSE <<>>) \o LabelNames(Tail(a))

\* JSON.stringify(names.sort()): equal for two lists exactly when each name
\* occurs as often in one as in the other
Sorted(names) ==
  [n \in {names[i] : i \in 1..Len(names)} |->
     Cardinality({i \in 1..Len(names) : names[i] = n})]

\* labels && labels.length > 0 followed by labels.map: a non-empty string has
\* a length and no map
MapThrows(v) == v.t = "string" /\ v.s # ""

\* value of an array's elements, none for another value
Elements(v) == IF v.t = "array" THEN v.a ELSE <<>>

\* user?.displayName || user?.name || fallback
DisplayName(user, fallback) ==
  Or(Or(Member(user, "displayName"), Member(user, "name")), Str(fallback))

\* identifier || `#${number}` || id
IssueRef(issueData) ==
  Or(Member(issueData, "identifier"), Str("#" \o Text(Member(issueData, "number"))))

\* the value of the Issue ID field that each of the three issue embeds has
IssueIdField(issueData) == [issueId |-> Text(IssueRef(issueData))]

\* createIssueCreateEmbed
CreateIssueCreateEmbed(issueData) ==
  LET description == Member(issueData, "description")
      project     == Member(issueData, "project")
      cycle       == Member(issueData, "cycle")
      labels      == Member(issueData, "labels")
      estimate    == Member(issueData, "estimate")
      base ==
        IF JsTruthy(description)
        THEN IF description.t = "string"
             THEN Str(IF Len(description.s) > IssueDescriptionCut
                      THEN Substring(description.s, IssueDescriptionCut) \o "..."
                      ELSE description.s)
             ELSE description
        ELSE Str("*No description provided*")
      labelNames == Join(LabelNames(Elements(labels)), ", ")
      contextInfo ==
        (IF JsTruthy(Member(project, "name"))
         THEN <<"**Project:** " \o Text(Member(project, "name"))>> ELSE <<>>)
        \o (IF JsTruthy(Member(cycle, "name"))
            THEN <<"**Cycle:** " \o Text(Member(cycle, "name"))>> ELSE <<>>)
        \o (IF labelNames # "" THEN <<"**Labels:** " \o labelNames>> ELSE <<>>)
        \o (IF JsTruthy(estimate)
            THEN <<"**Estimate:** " \o Text(estimate) \o " pts">> ELSE <<>>)
      fullDescription ==
        IF contextInfo # <<>>
        THEN Str(Text(base) \o "\n\n" \o Join(contextInfo, "\n"))
        ELSE base
  IN  IF MapThrows(labels) \/ fullDescription.t # "string" THEN Thrown
      ELSE IssueIdField(issueData) @@
           Embed("createIssueCreateEmbed",
                 "Issue Created: " \o Text(Member(issueData, "title")),
                 Substring(fullDescription.s, DescriptionLimit),
                 <<>>)

\* one entry of changes: the attribute it names and the sides it shows
Change(attribute, parts) == [attribute |-> attribute, parts |-> parts]

\* the line pushed for an entry of changes
ChangeLine(c) == "**" \o c.attribute \o ":** " \o Join(c.parts, " -> ")

RECURSIVE ChangeLines(_)
ChangeLines(cs) ==
  IF cs = <<>> THEN <<>> ELSE <<ChangeLine(cs[1])>> \o ChangeLines(Tail(cs))

\* the comparison of a reference by name, with its placeholder
NamedChange(attribute, old, new, placeholder) ==
  IF StrictlyDiffer(Member(old, "name"), Member(new, "name"))
  THEN <<Change(attribute,
                <<Text(Or(Member(old, "name"), Str(placeholder))),
                  Text(Or(Member(new, "name"), Str(placeholder)))>>)>>
  ELSE <<>>

\* createIssueUpdateEmbed; updatedFrom defaults to {} when the envelope has
\* none
CreateIssueUpdateEmbed(issueData, updatedFromArg) ==
  LET updatedFrom == IF updatedFromArg = Absent THEN EmptyObject ELSE updatedFromArg
      old(k) == Member(updatedFrom, k)
      new(k) == Member(issueData, k)
      status ==
        IF /\ JsTruthy(old("state")) /\ JsTruthy(new("state"))
           /\ StrictlyDiffer(Member(old("state"), "name"), Member(new("state"), "name"))
        THEN <<Change("Status", <<Text(Member(old("state"), "name")),
                                  Text(Member(new("state"), "name"))>>)>>
        ELSE <<>>
      assignee ==
        IF StrictlyDiffer(Member(old("assignee"), "name"), Member(new("assignee"), "name"))
        THEN <<Change("Assignee", <<Text(DisplayName(old("assignee"), "Unassigned")),
                                    Text(DisplayName(new("assignee"), "Unassigned"))>>)>>
        ELSE <<>>
      title ==
        IF JsTruthy(old("title")) /\ StrictlyDiffer(old("title"), new("title"))
        THEN <<Change("Title", <<Text(old("title")), Text(new("title"))>>)>>
        ELSE <<>>
      priority == NamedChange("Priority", old("priority"), new("priority"), "No Priority")
      project  == NamedChange("Project", old("project"), new("project"), "None")
      cycle    == NamedChange("Cycle", old("cycle"), new("cycle"), "None")
      estimate ==
        IF StrictlyDiffer(old("estimate"), new("estimate"))
        THEN <<Change("Estimate",
                      <<IF JsTruthy(old("estimate"))
                        THEN Text(old("estimate")) \o " pts" ELSE "None",
                        IF JsTruthy(new("estimate"))
                        THEN Text(new("estimate")) \o " pts" ELSE "None">>)>>
        ELSE <<>>
      oldLabels == LabelNames(Elements(old("labels")))
      newLabels == LabelNames(Elements(new("labels")))
      labels ==
        IF /\ JsTruthy(old("labels")) /\ JsTruthy(new("labels"))
           /\ Sorted(oldLabels) # Sorted(newLabels)
        THEN <<Change("Labels",
                      <<IF Len(oldLabels) > 0 THEN Join(oldLabels, ", ") ELSE "None",
                        IF Len(newLabels) > 0 THEN Join(newLabels, ", ") ELSE "None">>)>>
        ELSE <<>>
      description ==
        IF StrictlyDiffer(old("description"), new("description"))
        THEN IF ~JsTruthy(old("description")) /\ JsTruthy(new("description"))
             THEN <<Change("Description", <<"Added">>)>>
             ELSE IF JsTruthy(old("description")) /\ ~JsTruthy(new("description"))
             THEN <<Change("Description", <<"Removed">>)>>
             ELSE IF JsTruthy(old("description")) /\ JsTruthy(new("description"))
             THEN <<Change("Description", <<"Updated">>)>>
             ELSE <<>>
        ELSE <<>>
      changes == status \o assignee \o title \o priority \o project \o cycle
                 \o estimate \o labels \o description
      head ==
        IF Len(changes) > 0
        THEN "**Changes Made:**\n" \o Join(ChangeLines(changes), "\n")
        ELSE "Issue details have been updated."
      current == new("description")
      fullDescription ==
        IF /\ JsTruthy(current) /\ current.t = "string"
           /\ Len(head) + Len(current.s) < CurrentDescriptionRoom
        THEN head \o "\n\n**Current Description:**\n"
                  \o Substring(current.s, CurrentDescriptionCut)
                  \o (IF Len(current.s) > CurrentDescriptionCut THEN "..." ELSE "")
        ELSE head
  IN  IF \/ (JsTruthy(old("labels")) /\ JsTruthy(new("labels"))
             /\ (old("labels").t # "array" \/ new("labels").t # "array"))
      THEN Thrown
      ELSE IssueIdField(issueData) @@
           Embed("createIssueUpdateEmbed",
                 "Issue Updated: " \o Text(new("title")),
                 Substring(fullDescription, DescriptionLimit),
                 changes)

\* createIssueDeleteEmbed
CreateIssueDeleteEmbed(issueData) ==
  IssueIdField(issueData) @@
  Embed("createIssueDeleteEmbed",
        "Issue Deleted: " \o Text(Member(issueData, "title")),
        "**Issue has been deleted**\n\nThe issue **"
          \o Text(Member(issueData, "title")) \o "** ("
          \o Text(IssueRef(issueData)) \o ") from team **"
          \o Text(Or(Member(Member(issueData, "team"), "name"), Str("Unknown Team")))
          \o "** has been permanently removed.",
        <<>>)

\* createIssueEmbed
CreateIssueEmbed(action, issueData, updatedFrom) ==
  CASE action = "create" -> CreateIssueCreateEmbed(issueData)
    [] action = "update" -> CreateIssueUpdateEmbed(issueData, updatedFrom)
    [] action = "remove" -> CreateIssueDeleteEmbed(issueData)

\* the comment body as the description starts from it
CommentBody(body) ==
  IF JsTruthy(body)
  THEN IF body.t = "string"
       THEN Str(IF Len(body.s) > CommentBodyCut
                THEN Substring(body.s, CommentBodyCut)
                     \o "...\n\n*[Comment truncated - click to view full comment]*"
                ELSE body.s)
       ELSE body
  ELSE Str("*No comment content provided*")

\* the issue context appended to a comment's description (the empty text without one)
IssueContext(issue) ==
  LET description == Member(issue, "description")
  IN  IF JsTruthy(description)
      THEN "\n\n**Issue Context:**\n*"
           \o (IF description.t = "string" /\ Len(description.s) > IssueContextCut
               THEN Substring(description.s, IssueContextCut) \o "..."
               ELSE Text(description))
           \o "*"
      ELSE ""

\* createCommentCreateEmbed
CreateCommentCreateEmbed(commentData) ==
  LET base    == CommentBody(Member(commentData, "body"))
      context == IssueContext(Member(commentData, "issue"))
      fullDescription == IF context # "" THEN Str(Text(base) \o context) ELSE base
  IN  IF fullDescription.t # "string" THEN Thrown
      ELSE Embed("createCommentCreateEmbed", "New Comment Added",
                 Substring(fullDescription.s, DescriptionLimit), <<>>)

\* createCommentUpdateEmbed
CreateCommentUpdateEmbed(commentData) ==
  Embed("createCommentUpdateEmbed", "Comment Updated",
        Substring("**Comment has been edited**\n\n"
                    \o Text(CommentBody(Member(commentData, "body")))
                    \o IssueContext(Member(commentData, "issue")),
                  DescriptionLimit),
        <<>>)

\* createCommentDeleteEmbed
CreateCommentDeleteEmbed(commentData) ==
  Embed("createCommentDeleteEmbed", "Comment Deleted",
        "**Comment has been deleted**\n\nComment by **"
          \o Text(DisplayName(Member(commentData, "user"), "Unknown"))
          \o "** has been removed from issue **"
          \o Text(Or(Member(Member(commentData, "issue"), "title"),
                     Str("#" \o Text(Member(commentData, "issueId")))))
          \o "**.",
        <<>>)

\* createCommentEmbed
CreateCommentEmbed(action, commentData) ==
  CASE action = "create" -> CreateCommentCreateEmbed(commentData)
    [] action = "update" -> CreateCommentUpdateEmbed(commentData)
    [] action = "remove" -> CreateCommentDeleteEmbed(commentData)

\* LinearWebhookPayloadSchema.safeParse. An envelope of the model is
\* [action, type, data, updatedFrom, rest]: rest says that createdAt,
\* webhookTimestamp, webhookId and organizationId are there with their types.
\* data passes z.union([LinearIssueSchema, LinearCommentSchema,
\* BaseLinearEntitySchema]) exactly when it is an object (the record schema
\* accepts every object and the loose object schemas keep every member), and
\* updatedFrom may also be absent
SafeParse(envelope) ==
  /\ envelope.action \in Actions
  /\ envelope.type \in DeclaredTypes
  /\ envelope.rest
  /\ envelope.data.t = "object"
  /\ envelope.updatedFrom.t \in {"absent", "object"}

\* no creator was called
NoEmbed == Embed("none", "", "", <<>>)

\* the handler from safeParse to the payload handed to the delivery: the
\* embed that the dispatch on type builds. answer is 400 for a payload the
\* schema refuses, 500 when a creator throws into the outer catch, and 0 when
\* the handler goes on to optimizePayload and sendWebhook
HandlerTransform(envelope) ==
  IF ~SafeParse(envelope) THEN [answer |-> 400, embed |-> NoEmbed]
  ELSE LET embed ==
             IF envelope.type = "Issue"
             THEN CreateIssueEmbed(envelope.action, envelope.data, envelope.updatedFrom)
             ELSE IF envelope.type = "Comment"
             THEN CreateCommentEmbed(envelope.action, envelope.data)
             ELSE CreateEntityEmbed(envelope.type, envelope.action, envelope.data)
       IN  [answer |-> IF embed.threw THEN 500 ELSE 0, embed |-> embed]

\* ---------------------------------------------------------------------
\* The decoder and the embed factory, taken alone: an envelope that passed
\* the signature check is decoded and transformed; the event keeps the
\* envelope and then the handler's answer with the embed.
\* ---------------------------------------------------------------------

Ref(name) == Obj([name |-> Str(name)])

\* o with member k set to v (removed when v is Absent)
With(o, k, v) ==
  IF v = Absent THEN Obj([x \in DOMAIN o.o \ {k} |-> o.o[x]])
  ELSE Obj((k :> v) @@ o.o)

\* values of every JSON type for a member of a generic entity
GenericValues ==
  {Absent, Null, Str(""), Str("Plan for the quarter"), Num(0), Num(5),
   Bool(TRUE), Obj([text |-> Str("Plan")])}

Envelope(type, action, data, updatedFrom, rest) ==
  [type |-> type, action |-> action, data |-> data,
   updatedFrom |-> updatedFrom, rest |-> rest]

\* entities with an id, with or without a name, and a description of any type
GenericEnvelopes ==
  { Envelope(type, action,
             With(With(Obj([id |-> Str("e1")]), "name", name), "description", d),
             Absent, TRUE) :
      type \in DeclaredTypes \cup UndeclaredTypes, action \in Actions,
      name \in {Absent, Str("Roadmap Q3")}, d \in GenericValues }

\* comments with a body of any type, with or without the issue they are on
CommentEnvelopes ==
  { Envelope("Comment", action,
             With(With(Obj([id |-> Str("c1")]), "body", body), "issue", issue),
             Absent, rest) :
      action \in Actions, body \in GenericValues,
      issue \in {Absent, Obj([title |-> Str("Fix login"),
                              description |-> Str("Steps to reproduce")])},
      rest \in BOOLEAN }

\* an issue with no optional member, and one with every tracked one
BareIssue == Obj([id |-> Str("i1"), title |-> Str("Fix login")])

FullIssue ==
  Obj([id |-> Str("i1"), title |-> Str("Fix login"),
       description |-> Str("Steps to reproduce"),
       state |-> Ref("Todo"), assignee |-> Ref("Alice"),
       priority |-> Ref("High"), project |-> Ref("Website"),
       cycle |-> Ref("Sprint 1"), estimate |-> Num(3),
       labels |-> Arr(<<Ref("Bug"), Ref("UI")>>),
       startedAt |-> Str("2024-05-01T10:00:00Z")])

\* the members of an issue that an update may change, each with the values
\* the model gives it (createIssueUpdateEmbed reads all of them but startedAt)
Tracked ==
  {"state", "assignee", "title", "priority", "project", "cycle", "estimate",
   "labels", "description", "startedAt"}

Alternatives(k) ==
  CASE k = "state" -> {Absent, Ref("Todo"), Ref("Done")}
    [] k = "assignee" -> {Absent, Ref("Alice"), Ref("Bob")}
    [] k = "title" -> {Absent, Str("Fix login"), Str("Fix logon")}
    [] k = "priority" -> {Absent, Ref("High"), Ref("Low")}
    [] k = "project" -> {Absent, Ref("Website"), Ref("Mobile")}
    [] k = "cycle" -> {Absent, Ref("Sprint 1"), Ref("Sprint 2")}
    [] k = "estimate" -> {Absent, Null, Num(3), Num(5)}
    [] k = "labels" -> {Absent, Arr(<<>>), Arr(<<Ref("Bug")>>),
                        Arr(<<Ref("Bug"), Ref("UI")>>),
                        Arr(<<Ref("UI"), Ref("Bug")>>), Str("Bug")}
    [] k = "description" -> {Absent, Null, Str("Steps to reproduce"),
                             Str("Steps to reproduce, with logs"), Num(5)}
    [] k = "startedAt" -> {Absent, Str("2024-05-01T10:00:00Z"),
                           Str("2024-06-01T10:00:00Z")}

\* issue envelopes: the prior state is the whole issue but for one member,
\* or the one member alone, or not there; the issue itself is the bare one,
\* the full one, or the full one but for one member
IssueEnvelopes ==
  { Envelope("Issue", action, issue, Absent, TRUE) :
      action \in Actions,
      issue \in {BareIssue, FullIssue,
                 With(BareIssue, "number", Num(12)),
                 With(FullIssue, "identifier", Str("ENG-12")),
                 With(With(FullIssue, "identifier", Str("ENG-12")), "number", Num(12))} }
  \cup
  { Envelope("Issue", action, With(issue, k, v), Absent, TRUE) :
      action \in {"create", "remove"}, issue \in {BareIssue, FullIssue},
      k \in {"labels", "description"},
      v \in Alternatives("labels") \cup Alternatives("description") }
  \cup
  UNION { UNION {
          { Envelope("Issue", "update", issue, With(issue, k, v), TRUE),
            Envelope("Issue", "update", With(FullIssue, k, v), FullIssue, TRUE),
            Envelope("Issue", "update", FullIssue, With(EmptyObject, k, v), TRUE) } :
            issue \in {BareIssue, FullIssue}, v \in Alternatives(k) } : k \in Tracked }

\* envelopes the schema refuses for another reason than their type
BrokenEnvelopes ==
  { Envelope(type, action, data, Absent, rest) :
      type \in {"Issue", "Document"}, action \in Actions \cup {"archive"},
      data \in {Null, BareIssue}, rest \in BOOLEAN }

Envelopes == GenericEnvelopes \cup CommentEnvelopes \cup IssueEnvelopes \cup BrokenEnvelopes

EmbedInit ==
  /\ now = StartTime
  /\ config \in SecuredConfigs
  /\ lastRequestTime = 0
  /\ rateLimitInfo = NoHeaders
  /\ call = [r \in Requests |-> IdleCall]
  /\ inbound = [r \in Requests |-> [resp |-> 0, deadline |-> 0]]
  /\ obs = [r \in Requests |-> QuietObs]
  /\ quota = [headers |-> Undefined, open |-> TRUE]
  /\ requests = NoRequests
  /\ clientView = NoView
  /\ \E envelope \in Envelopes : event = [kind |-> "envelope", envelope |-> envelope]

\* safeParse and the dispatch to the factory
Transform ==
  /\ event.kind = "envelope"
  /\ LET out == HandlerTransform(event.envelope)
     IN  event' = [kind |-> "embed", envelope |-> event.envelope,
                   answer |-> out.answer, embed |-> out.embed]
  /\ UNCHANGED <<now, config, requests, clientView, lastRequestTime, rateLimitInfo, call, inbound, obs, quota>>

EmbedNext == Transform

EmbedSpec == EmbedInit /\ [][EmbedNext]_vars

\* =====================================================================
\* content-optimizer.ts: ContentOptimizer
\* =====================================================================

\* A text is the list of its runs: n repetitions of one symbol, no two
\* neighbours with the same symbol. A symbol is a character ("x": any
\* character that is no white space and part of no keyword), a keyword of
\* emojiMap in any case, or one of its emojis.
Run(c, n) == [c |-> c, n |-> n]

Empty == <<>>

\* emojiMap in its order; the emojis are named, len is their String length
EmojiMap ==
  << [keyword |-> "created", emoji |-> "<new>", len |-> 2],
     [keyword |-> "updated", emoji |-> "<memo>", len |-> 2],
     [keyword |-> "deleted", emoji |-> "<wastebasket>", len |-> 3],
     [keyword |-> "removed", emoji |-> "<wastebasket>", len |-> 3],
     [keyword |-> "comment", emoji |-> "<speech>", len |-> 2],
     [keyword |-> "issue", emoji |-> "<ticket>", len |-> 2],
     [keyword |-> "project", emoji |-> "<folder>", len |-> 2],
     [keyword |-> "team", emoji |-> "<people>", len |-> 2],
     [keyword |-> "user", emoji |-> "<person>", len |-> 2],
     [keyword |-> "cycle", emoji |-> "<arrows>", len |-> 2],
     [keyword |-> "label", emoji |-> "<tag>", len |-> 3] >>

WhiteSpace == {" ", "\n"}

\* String length of one symbol
UnitLen(c) ==
  IF \E i \in 1..Len(EmojiMap) : EmojiMap[i].emoji = c
  THEN EmojiMap[CHOOSE i \in 1..Len(EmojiMap) : EmojiMap[i].emoji = c].len
  ELSE IF c \in WhiteSpace THEN 1 ELSE Len(c)

\* text.length
RECURSIVE TLen(_)
TLen(t) == IF t = <<>> THEN 0 ELSE UnitLen(t[1].c) * t[1].n + TLen(Tail(t))

\* the list of runs of a text: empty runs dropped, equal neighbours joined
RECURSIVE Canon(_)
Canon(t) ==
  IF t = <<>> THEN <<>>
  ELSE IF t[1].n = 0 THEN Canon(Tail(t))
  ELSE IF Len(t) > 1 /\ t[2].n = 0 THEN Canon(<<t[1]>> \o Tail(Tail(t)))
  ELSE IF Len(t) > 1 /\ t[2].c = t[1].c
       THEN Canon(<<Run(t[1].c, t[1].n + t[2].n)>> \o Tail(Tail(t)))
  ELSE <<t[1]>> \o Canon(Tail(t))

\* a + b
Concat(a, b) == Canon(a \o b)

\* text.substring(0, k); the part of a keyword or emoji that a cut leaves is
\* ordinary characters
RECURSIVE Prefix(_, _)
Prefix(t, k) ==
  IF t = <<>> \/ k <= 0 THEN <<>>
  ELSE LET u == UnitLen(t[1].c)
       IN  IF u * t[1].n <= k
           THEN Canon(<<t[1]>> \o Prefix(Tail(t), k - u * t[1].n))
           ELSE Canon(<<Run(t[1].c, k \div u), Run("x", k % u)>>)

\* text.includes(symbol)
Includes(t, c) == \E i \in 1..Len(t) : t[i].c = c

\* Math.max(text.lastIndexOf(" "), text.lastIndexOf("\n"))
LastBoundary(t) ==
  LET ends == { TLen(SubSeq(t, 1, i)) - 1 : i \in { j \in 1..Len(t) : t[j].c \in WhiteSpace } }
  IN  IF ends = {} THEN -1 ELSE CHOOSE e \in ends : \A f \in ends : f <= e

\* text.replace(/\s+/g, " ")
RECURSIVE CollapseWhiteSpace(_)
CollapseWhiteSpace(t) ==
  IF t = <<>> THEN <<>>
  ELSE IF t[1].c \in WhiteSpace
       THEN IF Len(t) > 1 /\ t[2].c \in WhiteSpace
            THEN CollapseWhiteSpace(Tail(t))
            ELSE <<Run(" ", 1)>> \o CollapseWhiteSpace(Tail(t))
  ELSE <<t[1]>> \o CollapseWhiteSpace(Tail(t))

\* text.trim()
RECURSIVE Trim(_)
Trim(t) ==
  IF t = <<>> THEN <<>>
  ELSE IF t[1].c \in WhiteSpace THEN Trim(Tail(t))
  ELSE IF t[Len(t)].c \in WhiteSpace THEN Trim(SubSeq(t, 1, Len(t) - 1))
  ELSE t

\* enhanceMarkdown: the white space is collapsed and trimmed; the four
\* replacements after it put back the very text they match
EnhanceMarkdown(text) == Trim(CollapseWhiteSpace(text))

\* text.replace(/\n{3,}/g, "\n\n")
RECURSIVE CapLineBreaks(_)
CapLineBreaks(t) ==
  IF t = <<>> THEN <<>>
  ELSE (IF t[1].c = "\n" /\ t[1].n >= 3 THEN <<Run("\n", 2)>> ELSE <<t[1]>>)
       \o CapLineBreaks(Tail(t))

\* optimizeLineBreaks; its second replacement asks for a capital letter after
\* the line break, which no symbol of the model is
OptimizeLineBreaks(text) == Trim(CapLineBreaks(text))

\* truncateText that cuts nothing
TruncateTextKeepsAll(text, maxLength2) == text

\* truncateText; maxLength2 is twice maxLength, which reduceEmbedSize makes a
\* multiple of one half
TruncateText(text, maxLength2) ==
  IF 2 * TLen(text) <= maxLength2 THEN text
  ELSE LET truncated == Prefix(text, maxLength2 \div 2)
           boundary  == LastBoundary(truncated)
       IN  IF 5 * boundary > 2 * maxLength2
           THEN Prefix(text, boundary)
           ELSE truncated

Ellipsis == <<Run(".", 3)>>

\* addTitleEmojis; config.nodeEnv is the environment setting
RECURSIVE FirstEmoji(_, _)
FirstEmoji(title, i) ==
  IF i > Len(EmojiMap) THEN title
  ELSE IF Includes(title, EmojiMap[i].keyword) /\ ~Includes(title, EmojiMap[i].emoji)
       THEN Concat(<<Run(EmojiMap[i].emoji, 1), Run(" ", 1)>>, title)
  ELSE FirstEmoji(title, i + 1)

AddTitleEmojis(title) ==
  IF config.nodeEnv = "production" THEN title ELSE FirstEmoji(title, 1)

\* the shared end of optimizeContent, optimizeTitle, optimizeDescription and
\* optimizeFieldValue: cut to max with an ellipsis
Fit(optimized, max) ==
  IF TLen(optimized) > max
  THEN Concat(TruncateText(optimized, 2 * (max - TLen(Ellipsis))), Ellipsis)
  ELSE optimized

\* optimizeContent
OptimizeContent(content) ==
  IF content = Empty THEN Empty ELSE Fit(EnhanceMarkdown(content), ContentMax)

\* optimizeTitle
OptimizeTitle(title) ==
  IF title = Empty THEN Empty ELSE Fit(AddTitleEmojis(title), EmbedTitleMax)

\* optimizeDescription
OptimizeDescription(description) ==
  IF description = Empty THEN Empty
  ELSE Fit(OptimizeLineBreaks(EnhanceMarkdown(description)), EmbedDescriptionMax)

\* optimizeFieldValue
OptimizeFieldValue(value) ==
  IF value = Empty THEN <<Run("N/A", 1)>>
  ELSE Fit(EnhanceMarkdown(value), EmbedFieldValueMax)

\* a || fallback on texts
OrText(a, fallback) == IF a # Empty THEN a ELSE <<Run(fallback, 1)>>

\* a field keeps, next to its name and value, the place it had in the embed
\* that came in
Field(name, value, origin) == [name |-> name, value |-> value, origin |-> origin]

\* array.slice(0, n)
Slice(a, n) == SubSeq(a, 1, Min(Len(a), n))

\* array.filter(field => field.name && field.value)
RECURSIVE NonEmptyFields(_)
NonEmptyFields(fields) ==
  IF fields = <<>> THEN <<>>
  ELSE (IF fields[1].name # Empty /\ fields[1].value # Empty
        THEN <<fields[1]>> ELSE <<>>)
       \o NonEmptyFields(Tail(fields))

\* optimizeEmbed; an embed without fields has the empty list, one without a
\* footer has Undefined
OptimizeEmbed(embed) ==
  [title |-> OptimizeTitle(embed.title),
   url |-> embed.url,
   description |-> OptimizeDescription(embed.description),
   fields |->
     NonEmptyFields(
       [i \in 1..Min(Len(embed.fields), FieldsMax) |->
          Field(TruncateText(OrText(embed.fields[i].name, "Field"),
                             2 * EmbedFieldNameMax),
                OptimizeFieldValue(OrText(embed.fields[i].value, "Empty")),
                embed.fields[i].origin)]),
   footer |->
     IF IsDefined(embed.footer)
     THEN Some(TruncateText(Val(embed.footer), 2 * EmbedFooterTextMax))
     ELSE Undefined]

\* calculateEmbedSize
RECURSIVE FieldsSize(_)
FieldsSize(fields) ==
  IF fields = <<>> THEN 0
  ELSE TLen(fields[1].name) + TLen(fields[1].value) + FieldsSize(Tail(fields))

CalculateEmbedSize(embed) ==
  TLen(embed.title) + TLen(embed.description)
  + (IF IsDefined(embed.footer) THEN TLen(Val(embed.footer)) ELSE 0)
  + FieldsSize(embed.fields)

\* reduceEmbedSize: the reduced embed, or Undefined for null
ReduceEmbedSize(embed, maxSize) ==
  IF maxSize < ReduceFloor THEN Undefined
  ELSE LET fieldsSize == (maxSize * 3) \div 10
           fieldLimit == fieldsSize \div Max(Len(embed.fields), 1)
           reduced ==
             [title |-> embed.title,
              url |-> embed.url,
              description |->
                IF embed.description # Empty /\ 10 * TLen(embed.description) > maxSize * 6
                THEN TruncateText(embed.description, 2 * ((maxSize * 6) \div 10))
                ELSE embed.description,
              fields |->
                [i \in 1..Min(Len(embed.fields), ReducedFields) |->
                   Field(TruncateText(embed.fields[i].name,
                                      Min(fieldLimit, 2 * ReducedNameMax)),
                         TruncateText(embed.fields[i].value,
                                      2 * Min(fieldLimit, ReducedValueMax)),
                         embed.fields[i].origin)],
              footer |-> embed.footer]
       IN  IF CalculateEmbedSize(reduced) <= maxSize THEN Some(reduced) ELSE Undefined

\* a loop that passes over an embed it cannot fit and goes on with the next
RECURSIVE EnsureFromSkipping(_, _)
EnsureFromSkipping(embeds, totalSize) ==
  IF embeds = <<>> THEN <<>>
  ELSE LET embedSize == CalculateEmbedSize(embeds[1])
       IN  IF totalSize + embedSize <= EmbedTotalMax
           THEN <<embeds[1]>> \o EnsureFromSkipping(Tail(embeds), totalSize + embedSize)
           ELSE EnsureFromSkipping(Tail(embeds), totalSize)

\* ensureTotalEmbedSize: the loop from one embed on, with the size kept so far
RECURSIVE EnsureFrom(_, _)
EnsureFrom(embeds, totalSize) ==
  IF embeds = <<>> THEN <<>>
  ELSE LET embedSize == CalculateEmbedSize(embeds[1])
       IN  IF totalSize + embedSize <= EmbedTotalMax
           THEN <<embeds[1]>> \o EnsureFrom(Tail(embeds), totalSize + embedSize)
           ELSE LET reducedEmbed == ReduceEmbedSize(embeds[1], EmbedTotalMax - totalSize)
                IN  IF IsDefined(reducedEmbed) THEN <<Val(reducedEmbed)>> ELSE <<>>

EnsureTotalEmbedSize(embeds) == EnsureFrom(embeds, 0)

\* optimizePayload
OptimizePayload(payload) ==
  [content |-> OptimizeContent(payload.content),
   embeds |->
     EnsureTotalEmbedSize(
       Slice([i \in 1..Len(payload.embeds) |-> OptimizeEmbed(payload.embeds[i])],
             EmbedsMax))]

\* ---------------------------------------------------------------------
\* The optimizer taken alone: a payload is optimized, and what comes out is
\* optimized again; the event keeps the payload that came in, the outcome of
\* the last pass and the payload that pass started from.
\* ---------------------------------------------------------------------

\* n ordinary characters
X(n) == Canon(<<Run("x", n)>>)

\* the list of fields of an embed that comes in
Fields(list) == [i \in 1..Len(list) |-> Field(list[i][1], list[i][2], i)]

Contents ==
  { Empty, X(5),
    <<Run(" ", 2), Run("x", 3), Run("\n", 3), Run("x", 2), Run(" ", 1)>>,
    X(ContentMax + Excess),
    <<Run("x", ContentMax - 2 * Excess), Run(" ", 1), Run("x", 3 * Excess)>> }

Titles ==
  { Empty,
    <<Run("issue", 1), Run(" ", 1), Run("created", 1)>>,
    <<Run("<new>", 1), Run(" ", 1), Run("issue", 1), Run(" ", 1),
      Run("created", 1), Run(":", 1), Run(" ", 1), Run("x", 9)>>,
    X(EmbedTitleMax + Excess) }

Descriptions ==
  { Empty,
    <<Run("x", 12), Run("\n", 2), Run("x", 8)>>,
    X(EmbedDescriptionMax - Excess),
    X(EmbedDescriptionMax + Excess) }

FieldLists ==
  { <<>>,
    Fields(<< <<X(4), X(6)>> >>),
    Fields(<< <<Empty, X(6)>> >>),
    Fields(<< <<X(4), Empty>> >>),
    Fields(<< <<X(4), <<Run(" ", 2)>> >> >>),
    Fields(<< <<X(EmbedFieldNameMax + Excess), X(EmbedFieldValueMax + Excess)>> >>),
    Fields([i \in 1..(FieldsMax + 1) |-> <<X(4), X(6)>>]),
    Fields([i \in 1..FieldsMax |-> <<X(4), X(EmbedFieldValueMax)>>]) }

Footers == { Undefined, Some(X(10)), Some(X(EmbedFooterTextMax + Excess)) }

\* the url of the embed at place i of a payload
Url(i) == "https://linear.app/issue/" \o ToString(i)

InputEmbeds ==
  { [title |-> t, url |-> Url(1), description |-> d, fields |-> f, footer |-> g] :
      t \in Titles, d \in Descriptions, f \in FieldLists, g \in Footers }

SmallEmbed ==
  [title |-> X(9), url |-> Url(1), description |-> X(20),
   fields |-> Fields(<< <<X(4), X(6)>> >>), footer |-> Some(X(10))]

BigEmbed ==
  [title |-> X(9), url |-> Url(1), description |-> X(EmbedDescriptionMax - Excess),
   fields |-> Fields(<< <<X(4), X(6)>> >>), footer |-> Some(X(10))]

\* an embed that, after a big one, leaves less room than reduceEmbedSize
\* asks for, yet more than a small embed takes
MidEmbed ==
  [title |-> X(9), url |-> Url(1),
   description |-> X(EmbedTotalMax - CalculateEmbedSize(BigEmbed) - ReduceFloor),
   fields |-> <<>>, footer |-> Undefined]

\* the embeds of a payload, each with the url of its place
Placed(embeds) == [i \in 1..Len(embeds) |-> [embeds[i] EXCEPT !.url = Url(i)]]

Payloads ==
  { [content |-> X(5), embeds |-> <<e>>] : e \in InputEmbeds }
  \cup { [content |-> c, embeds |-> <<SmallEmbed>>] : c \in Contents }
  \cup { [content |-> X(5), embeds |-> Placed(es)] :
           es \in { <<>>, <<BigEmbed, BigEmbed>>, <<BigEmbed, BigEmbed, SmallEmbed>>,
                    <<BigEmbed, SmallEmbed, BigEmbed>>,
                    <<BigEmbed, MidEmbed, BigEmbed, SmallEmbed>>,
                    [i \in 1..(EmbedsMax + 1) |-> SmallEmbed] } }

\* NODE_ENV
Environments == {"production", "development"}

OptInit ==
  /\ now = StartTime
  /\ config \in { ("nodeEnv" :> e) @@ c : e \in Environments, c \in SecuredConfigs }
  /\ lastRequestTime = 0
  /\ rateLimitInfo = NoHeaders
  /\ call = [r \in Requests |-> IdleCall]
  /\ inbound = [r \in Requests |-> [resp |-> 0, deadline |-> 0]]
  /\ obs = [r \in Requests |-> QuietObs]
  /\ quota = [headers |-> Undefined, open |-> TRUE]
  /\ requests = NoRequests
  /\ clientView = NoView
  /\ \E payload \in Payloads :
       event = [kind |-> "payload", input |-> payload, previous |-> payload,
                output |-> payload, passes |-> 0]

\* one call of optimizePayload on the payload at hand
Optimize ==
  /\ event.kind \in {"payload", "optimized"}
  /\ event.passes < MaxPasses
  /\ event' = [kind |-> "optimized", input |-> event.input,
               previous |-> event.output,
               output |-> OptimizePayload(event.output),
               passes |-> event.passes + 1]
  /\ UNCHANGED <<now, config, requests, clientView, lastRequestTime, rateLimitInfo, call, inbound, obs, quota>>

OptNext == Optimize

OptSpec == OptInit /\ [][OptNext]_vars

\* =====================================================================
\* RateLimiter: the ingress limiter in front of every route
\* =====================================================================

\* the instants at which something happens to the limiter: each window of
\* the run, at its start, just under a second in, and at its last millisecond
Offsets == {0, MsPerSecond - 1, WindowMs - 1}

Instants ==
  { StartTime + k * WindowMs + d : k \in 0..LimiterWindows, d \in Offsets }

\* requestTimes.filter(time => now - time < this.windowMs)
InWindow(requestTimes, t) ==
  SelectSeq(requestTimes, LAMBDA time : t - time < WindowMs)

\* requestTimes.length > this.maxRequests
OverLimitLate(requestTimes) ==
  2 * Len(requestTimes) > config.maxRequestsPerMinute2

\* requestTimes.length >= this.maxRequests; the configured number need not
\* be whole (z.coerce.number().min(1)), it is kept doubled
OverLimit(requestTimes) ==
  2 * Len(requestTimes) >= config.maxRequestsPerMinute2

\* Math.min(...requestTimes) of a non-empty array
Oldest(requestTimes) ==
  CHOOSE t \in { requestTimes[i] : i \in DOMAIN requestTimes } :
    \A i \in DOMAIN requestTimes : t <= requestTimes[i]

\* Math.ceil(x / 1000)
CeilSeconds(x) == -((-x) \div MsPerSecond)

\* a rejected request is counted like an admitted one
RejectedHistoryCounted(clientId, requestTimes) == Append(requestTimes, now)

\* the history the middleware stores when it rejects: none, it leaves the
\* map as it was
RejectedHistory(clientId, requestTimes) == requests[clientId]

\* RateLimiter.middleware for a request of clientId at now: the new map and
\* the answer (0: next() is called)
Middleware(clientId) ==
  IF ~config.enableRateLimiting
  THEN [requests |-> requests, answer |-> 0, retryAfter |-> Undefined]
  ELSE LET requestTimes == InWindow(requests[clientId], now) IN
       IF OverLimit(requestTimes)
       THEN LET resetTime == Oldest(requestTimes) + WindowMs IN
            [requests |-> [requests EXCEPT
                             ![clientId] = RejectedHistory(clientId, requestTimes)],
             answer |-> 429,
             retryAfter |-> Some(CeilSeconds(resetTime - now))]
       ELSE [requests |-> [requests EXCEPT ![clientId] = Append(requestTimes, now)],
             answer |-> 0, retryAfter |-> Undefined]

\* MAX_REQUESTS_PER_MINUTE, doubled: 1, 1.5 or 2 requests a minute
MaxRequests2 == {2, 3, 4}

\* configurations of the limiter: on or off, with each of these limits
LimiterConfigs ==
  { ("enableRateLimiting" :> e) @@ ("maxRequestsPerMinute2" :> m) @@ c :
      e \in BOOLEAN, m \in MaxRequests2,
      c \in { d \in SecuredConfigs : d.maxRetries = 0 } }

LimiterInit ==
  /\ now = StartTime
  /\ config \in LimiterConfigs
  /\ lastRequestTime = 0
  /\ rateLimitInfo = NoHeaders
  /\ call = [r \in Requests |-> IdleCall]
  /\ inbound = [r \in Requests |-> [resp |-> 0, deadline |-> 0]]
  /\ obs = [r \in Requests |-> QuietObs]
  /\ quota = [headers |-> Undefined, open |-> TRUE]
  /\ requests = NoRequests
  /\ clientView = NoView
  /\ event = NoEvent

\* a request of clientId reaches the limiter; the client notes an admission,
\* or the time the Retry-After of a rejection tells it to wait until (the
\* earliest such time, when it is rejected again before it was admitted). A
\* client that was admitted once more than the limit allows sends no more.
LimiterRequest(clientId) ==
  LET m    == Middleware(clientId)
      view == clientView[clientId]
  IN  /\ 2 * Len(view.admitted) < config.maxRequestsPerMinute2 + 2
      /\ requests' = m.requests
      /\ clientView' = [clientView EXCEPT ![clientId] =
           IF m.answer = 0
           THEN [admitted |-> Append(view.admitted, now), retryAt |-> Undefined,
                 again |-> FALSE]
           ELSE LET told == now + Val(m.retryAfter) * MsPerSecond IN
                [view EXCEPT !.retryAt = IF IsDefined(@) THEN Some(Min(Val(@), told))
                                         ELSE Some(told),
                             !.again = IsDefined(view.retryAt)]]
      /\ event' = [kind |-> "limiter", client |-> clientId, answer |-> m.answer,
                   retryAfter |-> m.retryAfter, before |-> Len(view.admitted),
                   due |-> IsDefined(view.retryAt) /\ now >= Val(view.retryAt),
                   onTime |-> IsDefined(view.retryAt) /\ now = Val(view.retryAt),
                   again |-> view.again,
                   history |-> requests[clientId]]
      /\ UNCHANGED <<now, config, lastRequestTime, rateLimitInfo, call, inbound, obs, quota>>

\* RateLimiter.cleanup, run by the interval timer
Cleanup ==
  /\ requests' = [clientId \in Clients |-> InWindow(requests[clientId], now)]
  /\ event' = [kind |-> "cleanup"]
  /\ UNCHANGED <<now, config, clientView, lastRequestTime, rateLimitInfo, call, inbound, obs, quota>>

\* time passes up to a later instant; the clients forget the admissions
\* that are a window old
Advance ==
  /\ \E t \in Instants :
       /\ t > now
       /\ now' = t
       /\ clientView' = [c \in Clients |->
            [clientView[c] EXCEPT !.admitted = SelectSeq(@, LAMBDA a : t - a < WindowMs)]]
  /\ event' = NoEvent
  /\ UNCHANGED <<config, requests, lastRequestTime, rateLimitInfo, call, inbound, obs, quota>>

LimiterNext ==
  \/ \E clientId \in Clients : LimiterRequest(clientId)
  \/ Cleanup
  \/ Advance

LimiterSpec == LimiterInit /\ [][LimiterNext]_vars

\* =====================================================================
\* calculateDelay over the retries of one call, for the retry delays the
\* configuration admits
\* =====================================================================

\* DISCORD_RETRY_DELAY: the least, the default, the greatest, and between
RetryDelays == {100, 250, RetryDelay, 20000, MaxDelay}

\* Math.random() * 2 - 1 in hundredths, from -1 to just under 1
Rolls == {-100, -50, 0, 50, 99}

DelayInit ==
  /\ now = StartTime
  /\ config \in { ("retryDelay" :> d) @@ c :
                    d \in RetryDelays, c \in { e \in SecuredConfigs : e.maxRetries = 0 } }
  /\ lastRequestTime = 0
  /\ rateLimitInfo = NoHeaders
  /\ call = [r \in Requests |-> IdleCall]
  /\ inbound = [r \in Requests |-> [resp |-> 0, deadline |-> 0]]
  /\ obs = [r \in Requests |-> QuietObs]
  /\ quota = [headers |-> Undefined, open |-> TRUE]
  /\ requests = NoRequests
  /\ clientView = NoView
  /\ event = [kind |-> "delay", attempt |-> 0, roll |-> 0, delay |-> 0,
              plain |-> 0, previous |-> 0]

\* the catch block counts a failed attempt and computes the delay before the
\* next one, the sink having sent no retry-after; plain is the delay without
\* jitter, previous the one of the retry before
Backoff ==
  /\ event.kind = "delay"
  /\ event.attempt < MaxRetriesLimit
  /\ \E roll \in Rolls :
       LET attempt == NextAttempt(event.attempt) IN
       event' = [kind |-> "delay", attempt |-> attempt, roll |-> roll,
                 delay |-> BackoffDelay(config.retryDelay, attempt, roll),
                 plain |-> BackoffDelay(config.retryDelay, attempt, 0),
                 previous |-> event.plain]
  /\ UNCHANGED <<now, config, requests, clientView, lastRequestTime, rateLimitInfo, call, inbound, obs, quota>>

DelayNext == Backoff

DelaySpec == DelayInit /\ [][DelayNext]_vars

\* ---------------------------------------------------------------------
\* The typed schemas of schemas.ts, as predicates on a decoded value, for the
\* members the model gives an entity.

\* z.string().optional().nullable() and its like: v is missing, null, or of
\* type t
OptionalNullable(v, t) == v.t \in {"absent", "null", t}

\* LinearStateSchema, LinearUserSchema, LinearPrioritySchema, ...: an
\* optional object with a name
NamedSchema(v) ==
  v.t = "absent" \/ (v.t = "object" /\ Member(v, "name").t = "string")

\* LinearIssueSchema
LinearIssueSchema(v) ==
  /\ v.t = "object"
  /\ Member(v, "id").t = "string"
  /\ Member(v, "title").t = "string"
  /\ OptionalNullable(Member(v, "description"), "string")
  /\ \A k \in {"state", "assignee", "priority", "project", "cycle"} :
       NamedSchema(Member(v, k))
  /\ LET labels == Member(v, "labels") IN
       \/ labels.t = "absent"
       \/ /\ labels.t = "array"
          /\ \A i \in 1..Len(labels.a) : NamedSchema(labels.a[i])
  /\ OptionalNullable(Member(v, "estimate"), "number")
  /\ OptionalNullable(Member(v, "startedAt"), "string")

\* LinearCommentSchema; the issue of a comment is a partial issue
LinearCommentSchema(v) ==
  /\ v.t = "object"
  /\ Member(v, "id").t = "string"
  /\ Member(v, "body").t = "string"
  /\ Member(v, "issue").t \in {"absent", "object"}

\* =====================================================================
\* Properties
\* =====================================================================

\* C1: a call that was answered 429 with a retry-after of N seconds issues
\* its next attempt no earlier than N seconds after that response, and
\* resolves only after a further attempt was answered 2xx.
C1_RetryAfter429 ==
  /\ event.kind = "issue" => ~event.tooSoon
  /\ (event.kind = "settle" /\ event.seen.saw429 /\ event.result = "resolved")
       => (event.seen.issued >= 2 /\ event.seen.lastStatus \in 200..299)

\* C2: sendWebhook never resolves when the last response it received was a
\* 4xx or 5xx, and the inbound request is answered 200 only when the attempt
\* that ended the call was answered 2xx.
C2_SuccessOnly2xx ==
  event.kind = "settle" =>
    /\ event.result = "resolved" => event.seen.lastStatus \notin 400..599
    /\ event.answer = 200 => event.seen.lastStatus \in 200..299

\* C3: a response with a 4xx status other than 429 ends the call at once: it
\* is rejected, no further attempt follows, and the inbound request is not
\* answered with a success.
C3_ClientErrorIsFatal ==
  /\ \A r \in Requests :
       (obs[r].lastStatus \in 400..499 /\ obs[r].lastStatus # 429) => ~InDelivery(r)
  /\ (event.kind = "settle"
      /\ event.seen.lastStatus \in 400..499 /\ event.seen.lastStatus # 429)
       => (event.result = "rejected" /\ event.answer \in {0} \cup 500..599)

C5_Answered200Or500 ==
  \A r \in Requests : inbound[r].deadline # 0 => inbound[r].resp \in {0, 200, 500}

\* C5 (amended): every sendWebhook call settles after at most maxRetries + 1
\* attempts, and every inbound request that reached delivery is answered 200
\* or 500 by the handler, or 408 by the request timeout when that fires first.
C5_Terminates ==
  /\ [](\A r \in Requests : obs[r].issued <= config.maxRetries + 1)
  /\ \A r \in Requests :
       InDelivery(r) ~> (call[r].pc = "done" /\ inbound[r].resp \in {200, 500, 408})

\* C5 witness: a call settles after the request timeout has answered 408
C5_Witness ==
  /\ event.kind = "settle" /\ event.answer = 0
  /\ inbound[event.r].resp = 408

\* C6: for one inbound event the sink accepts the notification at most once.
C6_AtMostOnce ==
  /\ \A r \in Requests : obs[r].accepted <= 1
  /\ event.kind = "settle" => event.seen.accepted <= 1

\* C7: while the remembered remaining quota is unknown or greater than 1, a
\* request is issued at least rateLimitBuffer milliseconds after the previous
\* request of this process.
C7_MinimumSpacing ==
  (event.kind = "issue" /\ event.open /\ IsDefined(event.gap))
    => Val(event.gap) >= RateLimitBuffer

\* C8: no request is issued while the remembered remaining quota is at most 1
\* and the time is before the remembered reset plus rateLimitBuffer.
C8_HoldsBackUntilReset ==
  event.kind = "issue" => ~event.early

\* C9: once a response has been processed, the remembered rate-limit state
\* holds exactly what the headers of the response processed last say: a field
\* is unset when its header is absent or empty, and holds the parsed header
\* value otherwise; before any response the state is empty.
C9_LastWriterWins ==
  IF ~IsDefined(quota.headers) THEN rateLimitInfo = NoHeaders
  ELSE LET h == Val(quota.headers) IN
       /\ \A f \in DOMAIN NoHeaders :
            (~IsDefined(h[f]) \/ Val(h[f]) = "") => ~IsDefined(rateLimitInfo[f])
       /\ \A f \in {"limit", "remaining", "reset"} :
            (IsDefined(h[f]) /\ Val(h[f]) # "")
              => rateLimitInfo[f] = Some(ParseInt(Val(h[f])))
       /\ (IsDefined(h.resetAfter) /\ Val(h.resetAfter) # "")
            => rateLimitInfo.resetAfter = Some(ParseFloat(Val(h.resetAfter)))
       /\ \A f \in {"bucket", "scope"} :
            (IsDefined(h[f]) /\ Val(h[f]) # "") => rateLimitInfo[f] = h[f]

\* C9 witness: a response was processed that lacks a header whose field the
\* state held before
C9_Witness ==
  /\ event.kind = "settle" /\ event.dropped
  /\ IsDefined(quota.headers)
  /\ \E f \in DOMAIN NoHeaders : ~IsDefined(rateLimitInfo[f])

\* C10: with a secret configured and verification enabled, an inbound
\* request enters the delivery, the only place where messages are sent to the
\* sink, only when its signature is the hex HMAC-SHA256 of its exact raw body
\* under that secret.
C10_SignedExactBody ==
  (config.linearWebhookSecret # "" /\ config.enableSignatureVerification
   /\ event.kind \in {"admit", "issue"} /\ IsDefined(event.input))
    => Val(event.input).signature
         = Some(Hmac(config.linearWebhookSecret, Val(event.input).body))

\* C11 (as stated): a correctly signed request whose claimed timestamp is
\* further than the freshness window from now is rejected.
C11_StaleRejected ==
  (event.kind = "front" /\ CorrectlySigned /\ OutsideWindow) => event.answer # 0

\* C11 (amended): with a secret configured and verification enabled, a request
\* whose claimed timestamp is further than the freshness window from now, in
\* the past or in the future, is rejected before the delivery, whatever its
\* signature; with a correct signature and a JSON content type the answer
\* is 401.
C11_StaleRejectedWhenSecured ==
  (event.kind = "front" /\ Secured /\ OutsideWindow) =>
    /\ event.answer # 0
    /\ (CorrectlySigned /\ event.contentTypeJson) => event.answer = 401

\* C11 witness: a correctly signed request with a stale timestamp is answered
\* 401 under a secured configuration
C11_Witness ==
  /\ event.kind = "front" /\ Secured /\ CorrectlySigned /\ OutsideWindow
  /\ event.body.utf8 /\ event.body.valid /\ event.contentTypeJson
  /\ event.answer = 401

\* C12: with verification in force, a request with a well-formed body (JSON
\* text in valid UTF-8) whose header has the form
\* t=<unix_ms>,v1=<hex_digest>, the digest being the HMAC-SHA256 of its raw
\* body under the configured secret and the times inside the freshness
\* window, passes the verification (it is not answered 401), and the same
\* header with a different body is rejected.
C12_CompositeRoundTrip ==
  (event.kind = "front" /\ Secured /\ event.contentTypeJson
   /\ event.body.json /\ event.body.utf8
   /\ IsDefined(event.signature) /\ Val(event.signature)[1] = "t=,v1="
   /\ Val(event.signature)[2] = config.linearWebhookSecret)
    => IF Val(event.signature)[3] = event.body
       THEN ~OutsideWindow => event.answer # 401
       ELSE event.answer # 0

\* C13: with verification in force, a request with a JSON content type and
\* a well-formed body that fails the authentication (no signature header, a
\* signature that is not the digest of the body, or a timestamp outside the
\* freshness window) is answered 401.
C13_AuthFailureIs401 ==
  (event.kind = "front" /\ Secured /\ event.contentTypeJson
   /\ event.body.json /\ event.body.utf8
   /\ (\/ ~IsDefined(event.signature)
       \/ ~CorrectlySigned
       \/ OutsideWindow))
    => event.answer = 401

\* C14: a request whose body is not parseable JSON is answered 400 and does
\* not reach the delivery.
C14_MalformedIs400 ==
  (event.kind = "front" /\ ~event.body.json) => event.answer = 400

\* the envelope in event is what the schema asks for, its type left aside
OtherwiseValid ==
  /\ event.envelope.action \in Actions
  /\ event.envelope.rest
  /\ event.envelope.data.t = "object"
  /\ event.envelope.updatedFrom.t \in {"absent", "object"}

\* C15: an otherwise valid envelope whose entity type is not one of the
\* declared types is decoded as a generic entity and handled by the generic
\* transformer; it is not rejected.
C15_UndeclaredTypeIsGeneric ==
  (/\ event.kind = "embed"
   /\ OtherwiseValid
   /\ event.envelope.type \notin DeclaredTypes
   /\ ~SubstringThrows(Member(event.envelope.data, "description")))
  => (event.answer = 0 /\ event.embed.creator = "createGenericEmbed")

\* C16: for every declared entity type, every action and every structurally
\* valid envelope, decoding succeeds and the transformer returns a message
\* with a non-empty title and a non-empty description, without throwing.
C16_AlwaysSomeMessage ==
  (event.kind = "embed" /\ SafeParse(event.envelope))
  => /\ event.answer = 0
     /\ ~event.embed.threw
     /\ event.embed.title # ""
     /\ event.embed.description # ""

\* what an update is compared on: a reference by its name, the labels by the
\* names they hold in any order, the description by its presence, and null
\* like an absent member
Norm(k, v) ==
  CASE k \in {"state", "assignee", "priority", "project", "cycle"} ->
         [ref |-> IF Nullish(Member(v, "name")) THEN Absent ELSE Member(v, "name")]
    [] k = "labels" -> [names |-> Sorted(LabelNames(Elements(v)))]
    [] k = "description" -> [present |-> JsTruthy(v)]
    [] OTHER -> [value |-> IF Nullish(v) THEN Absent ELSE v]

\* the members of an issue have the types LinearIssueSchema gives them
Typed(issue) ==
  /\ Member(issue, "labels").t \in {"absent", "array"}
  /\ Member(issue, "description").t \in {"absent", "null", "string"}
  /\ Member(issue, "estimate").t \in {"absent", "null", "number"}

\* the tracked attributes that differ between the prior state and the issue
\* of the envelope in event (every issue has a title, so a prior state
\* without one says nothing about it)
Differing ==
  { k \in Tracked :
      /\ Norm(k, Member(event.envelope.updatedFrom, k))
           # Norm(k, Member(event.envelope.data, k))
      /\ k = "title" => ~Nullish(Member(event.envelope.updatedFrom, k)) }

\* the name a change line gives to a tracked attribute
LineName(k) ==
  CASE k = "state" -> "Status" [] k = "assignee" -> "Assignee"
    [] k = "title" -> "Title" [] k = "priority" -> "Priority"
    [] k = "project" -> "Project" [] k = "cycle" -> "Cycle"
    [] k = "estimate" -> "Estimate" [] k = "labels" -> "Labels"
    [] k = "description" -> "Description" [] k = "startedAt" -> "Started"

\* C17: for an Issue update in which exactly one tracked attribute differs
\* between prior state and current state, the description contains exactly
\* one change line, it names that attribute, and an absent old or new side is
\* shown as its placeholder (never blank, undefined or null).
C17_OneChangeOneLine ==
  (/\ event.kind = "embed"
   /\ SafeParse(event.envelope)
   /\ event.envelope.type = "Issue"
   /\ event.envelope.action = "update"
   /\ event.envelope.updatedFrom.t = "object"
   /\ Typed(event.envelope.data) /\ Typed(event.envelope.updatedFrom)
   /\ Cardinality(Differing) = 1)
  => /\ ~event.embed.threw
     /\ Len(event.embed.changes) = 1
     /\ \A k \in Differing : event.embed.changes[1].attribute = LineName(k)
     /\ \A i \in 1..Len(event.embed.changes[1].parts) :
          event.embed.changes[1].parts[i] \notin {"", "undefined", "null"}

\* C18: optimizePayload is idempotent: for every payload and every
\* environment setting, optimizing the outcome of optimizePayload again
\* leaves the content and every embed title, description, field and footer
\* as they are.
C18_Idempotent ==
  (event.kind = "optimized" /\ event.passes = 2)
  => event.output = event.previous

\* the summed title, description, footer and field text of a list of embeds
RECURSIVE TotalSize(_)
TotalSize(embeds) ==
  IF embeds = <<>> THEN 0
  ELSE CalculateEmbedSize(embeds[1]) + TotalSize(Tail(embeds))

\* an embed is within every ceiling of its own
WithinCeilings(embed) ==
  /\ TLen(embed.title) <= EmbedTitleMax
  /\ TLen(embed.description) <= EmbedDescriptionMax
  /\ IsDefined(embed.footer) => TLen(Val(embed.footer)) <= EmbedFooterTextMax
  /\ Len(embed.fields) <= FieldsMax
  /\ \A i \in 1..Len(embed.fields) :
       /\ TLen(embed.fields[i].name) <= EmbedFieldNameMax
       /\ TLen(embed.fields[i].value) <= EmbedFieldValueMax

\* C19: for every input payload the output of optimizePayload satisfies every
\* ceiling: content, each embed title, description, field name, field value
\* and footer text, the number of fields per embed, the number of embeds, and
\* the summed text of all kept embeds.
C19_Ceilings ==
  event.kind = "optimized"
  => /\ TLen(event.output.content) <= ContentMax
     /\ Len(event.output.embeds) <= EmbedsMax
     /\ \A i \in 1..Len(event.output.embeds) : WithinCeilings(event.output.embeds[i])
     /\ TotalSize(event.output.embeds) <= EmbedTotalMax

\* a payload whose embeds sum past the total ceiling came in, each text of it
\* within its own ceiling, and the embed that did not fit was kept, reduced
C19_Witness ==
  /\ event.kind = "optimized"
  /\ event.passes = 1
  /\ TotalSize(event.input.embeds) > EmbedTotalMax
  /\ event.output.embeds # <<>>
  /\ TotalSize(event.output.embeds) > EmbedDescriptionMax + ReduceFloor

\* C20: optimizePayload never lengthens text: the output content is no longer
\* than the input content, and every field name and field value kept in the
\* output is no longer than the name and value of the input field it comes
\* from, including input fields whose name or value is empty.
C20_NeverLengthens ==
  (event.kind = "optimized" /\ event.passes = 1)
  => /\ TLen(event.output.content) <= TLen(event.input.content)
     /\ \A j \in 1..Len(event.output.embeds) :
          \A i \in 1..Len(event.output.embeds[j].fields) :
            LET kept == event.output.embeds[j].fields[i]
                came == event.input.embeds[j].fields[kept.origin]
            IN  /\ TLen(kept.name) <= TLen(came.name)
                /\ TLen(kept.value) <= TLen(came.value)

\* ---------------------------------------------------------------------
\* C21 (as stated): for every client identity and every instant, the
\* requests of that client admitted by the limiter within the preceding
\* 60 seconds number at most maxRequests, after any requests of any clients
\* and any cleanup runs; a request arriving while that number equals
\* maxRequests is answered 429.
C21_WindowBound ==
  /\ \A c \in Clients :
       2 * Len(clientView[c].admitted) <= config.maxRequestsPerMinute2
  /\ (event.kind = "limiter" /\ 2 * event.before = config.maxRequestsPerMinute2)
       => event.answer = 429

\* C21 (amended): while rate limiting is enabled, the requests of a client
\* admitted within the preceding 60 seconds number at most maxRequests
\* rounded up to a whole number, and a request arriving while that number
\* has reached maxRequests is answered 429.
C21_WindowBoundWhenEnabled ==
  config.enableRateLimiting =>
    /\ \A c \in Clients :
         2 * Len(clientView[c].admitted) < config.maxRequestsPerMinute2 + 2
    /\ (event.kind = "limiter" /\ 2 * event.before >= config.maxRequestsPerMinute2)
         => event.answer = 429

\* a client is turned away at its limit in a later window, after a cleanup
\* has dropped its first history, while the other client has admissions
C21_Witness ==
  /\ config.enableRateLimiting
  /\ event.kind = "limiter" /\ event.answer = 429
  /\ 2 * event.before = config.maxRequestsPerMinute2
  /\ now >= StartTime + WindowMs
  /\ \A t \in { event.history[i] : i \in DOMAIN event.history } : now - t < WindowMs
  /\ \E c \in Clients : c # event.client /\ clientView[c].admitted # <<>>

\* ---------------------------------------------------------------------
\* C28: a request answered 429 leaves the history recorded for its client
\* as it was, and announces a Retry-After of at least one second; a client
\* that has waited the announced seconds is admitted on its next request,
\* however many of its requests were rejected in between.
C28_RejectionKeepsHistory ==
  event.kind = "limiter" =>
    /\ event.answer = 429 =>
         /\ requests[event.client] = event.history
         /\ Val(event.retryAfter) >= 1
    /\ event.due => event.answer = 0

\* a client that was rejected, and rejected again while waiting, comes back
\* at the very millisecond the first Retry-After ends, and is admitted
C28_Witness ==
  /\ event.kind = "limiter" /\ event.answer = 0
  /\ event.onTime /\ event.again
  /\ event.history # <<>>

\* ---------------------------------------------------------------------
\* C22: once the timeout middleware has answered a request with 408, no
\* further delivery attempt for its event (none after a failed one) is
\* issued to the sink, and no second response is written for that request.
C22_TimeoutAbandons ==
  /\ (event.kind = "issue" /\ call[event.r].attempt > 0)
       => inbound[event.r].resp # 408
  /\ (event.kind = "settle" /\ inbound[event.r].resp = 408) => event.answer = 0

\* ---------------------------------------------------------------------
\* the tracked attributes whose value differs between the prior state and
\* the issue of the envelope in event; the description counts by its text,
\* and an attribute that is absent or null on both sides does not differ
Changed ==
  { k \in Tracked :
      LET old == Member(event.envelope.updatedFrom, k)
          new == Member(event.envelope.data, k)
      IN  IF k = "description"
          THEN (IF Nullish(old) THEN Absent ELSE old) # (IF Nullish(new) THEN Absent ELSE new)
          ELSE Norm(k, old) # Norm(k, new) }

\* C23: in an Issue update a change line is emitted for a tracked attribute
\* only if the value of that attribute differs between the prior state and
\* the current state; when no tracked attribute differs, the description is
\* the generic details-updated line and holds no change line.
C23_OnlyChangedAttributes ==
  (/\ event.kind = "embed"
   /\ SafeParse(event.envelope)
   /\ event.envelope.type = "Issue"
   /\ event.envelope.action = "update"
   /\ event.envelope.updatedFrom.t = "object"
   /\ Typed(event.envelope.data) /\ Typed(event.envelope.updatedFrom)
   /\ ~event.embed.threw)
  => /\ \A i \in 1..Len(event.embed.changes) :
          \E k \in Changed : event.embed.changes[i].attribute = LineName(k)
     /\ Changed = {} =>
          /\ event.embed.changes = <<>>
          /\ SubSeq(event.embed.description, 1, 32) = "Issue details have been updated."

C25_PrefixOfInput ==
  event.kind = "optimized" =>
    /\ Len(event.output.embeds) <= Len(event.previous.embeds)
    /\ \A i \in 1..Len(event.output.embeds) :
         /\ event.output.embeds[i].url = event.previous.embeds[i].url
         /\ \A j \in 1..Len(event.output.embeds[i].fields) :
              \E k \in 1..Len(event.previous.embeds[i].fields) :
                event.output.embeds[i].fields[j].origin
                  = event.previous.embeds[i].fields[k].origin

\* an embed was dropped for want of room although the one after it is small
\* enough for the room that was left
C25_Witness ==
  /\ event.kind = "optimized"
  /\ event.output.embeds # <<>>
  /\ Len(event.output.embeds) + 1 < Len(event.previous.embeds)
  /\ CalculateEmbedSize(OptimizeEmbed(event.previous.embeds[Len(event.previous.embeds)]))
       <= EmbedTotalMax - TotalSize(event.output.embeds)

\* ---------------------------------------------------------------------
\* the signature header of the request in event is not one bare digest
Malformed ==
  ~IsDefined(event.signature) \/ Val(event.signature)[1] # "hmac-sha256-hex"

\* C26: with a secret configured and verification enabled, verifySignature
\* returns false for every request whose claimed timestamp is missing or not
\* a number and for every malformed signature header, whatever digest the
\* header carries.
C26_UnverifiableIsRejected ==
  (/\ event.kind = "front"
   /\ Secured
   /\ event.body.json
   /\ ~IsDefined(event.body.ts) \/ Malformed)
  => ~VerifySignature(event.signature, BufferToString(event.body),
                      config.linearWebhookSecret, event.body.ts, now)

\* ---------------------------------------------------------------------
\* C27: an envelope of entity type Issue (or Comment) whose data does not
\* satisfy the typed Issue (or Comment) schema, for instance for want of an
\* id or a title, is answered 400 as a validation failure and is not decoded
\* as a generic entity.
C27_TypedSchemaEnforced ==
  (/\ event.kind = "embed"
   /\ OtherwiseValid
   /\ \/ event.envelope.type = "Issue" /\ ~LinearIssueSchema(event.envelope.data)
      \/ event.envelope.type = "Comment" /\ ~LinearCommentSchema(event.envelope.data))
  => event.answer = 400

\* ---------------------------------------------------------------------
\* the remembered state as the response received last left it
LastResponseState ==
  IF IsDefined(quota.headers) THEN UpdateRateLimitInfo(Val(quota.headers))
  ELSE NoHeaders

\* C29: an attempt that ends with a transport error leaves the remembered
\* rate-limit state as it was, whether the call then sleeps or gives up;
\* the state changes only in a step that received a response; and when the
\* call comes back from its backoff sleep, the pacing decision reads the
\* state that the response received last has left.
C29_TransportErrorKeepsState ==
  [][ /\ \A r \in Requests :
           (/\ call[r].pc = "inflight" /\ call'[r].pc = "backoff"
            /\ ~IsDefined(Val(call'[r].lastError).status))
           => rateLimitInfo' = rateLimitInfo
      /\ (/\ event'.kind = "settle" /\ event'.result = "rejected"
          /\ IsDefined(event'.cause) /\ ~IsDefined(Val(event'.cause).response))
         => rateLimitInfo' = rateLimitInfo
      /\ rateLimitInfo' # rateLimitInfo
         => (event'.kind = "settle" /\ event'.result = "resolved")
      /\ \A r \in Requests :
           (call[r].pc = "backoff" /\ call'[r].pc \in {"pacing", "inflight"})
           => rateLimitInfo = LastResponseState
    ]_vars

\* after a transport error and its backoff sleep a call is held back by the
\* quota that a response to the other call has left
C29_Witness ==
  \E r \in Requests :
    /\ call[r].pc = "pacing" /\ call[r].attempt >= 1
    /\ IsDefined(call[r].lastError)
    /\ ~IsDefined(Val(call[r].lastError).status)
    /\ IsDefined(rateLimitInfo.remaining) /\ Val(rateLimitInfo.remaining) <= 1

\* ---------------------------------------------------------------------
\* C30: in every Issue embed (create, update, remove) the Issue ID field
\* shows the identifier when the issue has one, otherwise # followed by the
\* number when it has a number, otherwise the id of the entity; it never
\* shows text built from an absent value.
C30_IssueIdField ==
  (/\ event.kind = "embed"
   /\ SafeParse(event.envelope)
   /\ event.envelope.type = "Issue"
   /\ LinearIssueSchema(event.envelope.data)
   /\ ~event.embed.threw)
  => LET data == event.envelope.data IN
     /\ event.embed.issueId =
          IF JsTruthy(Member(data, "identifier")) THEN Member(data, "identifier").s
          ELSE IF Member(data, "number").t = "number"
               THEN "#" \o ToString(Member(data, "number").n)
          ELSE Member(data, "id").s
     /\ event.embed.issueId \notin {"#undefined", "#null", "undefined", "null"}

====
